---- MODULE Spec2Model ----
(***************************************************************************)
(* Model of the Lao tutor backend: the tutoring engine (TutorEngine), its  *)
(* text helpers and fuzzy matchers, and the conversational reply composer  *)
(* (ConversationService).                                                  *)
(*                                                                         *)
(* Text is a sequence of Unicode code points, so that lower-casing,        *)
(* stripping, romanisation and difflib's similarity ratio are computed on  *)
(* the characters as the code computes them.  Python's None is the         *)
(* distinguished value None below; an Optional[str] task id that is None   *)
(* or "" is the falsy NoTask (the code only tests task ids for truth).     *)
(***************************************************************************)
EXTENDS Integers, Sequences, FiniteSets, TLC

None == <<-1>>
NoTask == ""

\* Python truthiness of an Optional[str]: None and "" are falsy.
Truthy(x) == x # None /\ x # <<>>

Min(a, b) == IF a <= b THEN a ELSE b

\* Python's "a or b" on Optional[str] values.
Or(a, b) == IF Truthy(a) THEN a ELSE b

RECURSIVE Concat(_)
Concat(seqs) == IF seqs = <<>> THEN <<>> ELSE Head(seqs) \o Concat(Tail(seqs))

\* str.lower() on one code point (the model's texts use ASCII and Lao only).
LowerChar(c) == IF c >= 65 /\ c <= 90 THEN c + 32 ELSE c
Lower(text) == [i \in 1..Len(text) |-> LowerChar(text[i])]

IsSpace(c) == c \in {9, 10, 11, 12, 13, 32}
IsAsciiLetter(c) == c >= 97 /\ c <= 122
IsAsciiDigit(c) == c >= 48 /\ c <= 57

\* str.strip()
Strip(text) ==
    LET idx == {i \in 1..Len(text) : ~IsSpace(text[i])}
    IN IF idx = {} THEN <<>>
       ELSE LET lo == CHOOSE i \in idx : \A j \in idx : i <= j
                hi == CHOOSE i \in idx : \A j \in idx : i >= j
            IN SubSeq(text, lo, hi)

\* a in b for two strings
IsSubstring(a, b) ==
    \E i \in 0..(Len(b) - Len(a)) : SubSeq(b, i + 1, i + Len(a)) = a

----------------------------------------------------------------------------
(* services/nlp.py *)

IsLaoChar(c) == c >= 3712 /\ c <= 3839

contains_lao_characters(text) == \E i \in 1..Len(text) : IsLaoChar(text[i])

\* _LAO_RUN.search(text): the first maximal run of Lao characters.
extract_first_lao_segment(text) ==
    IF ~Truthy(text) \/ ~contains_lao_characters(text) THEN None
    ELSE LET lo == CHOOSE i \in 1..Len(text) :
                     IsLaoChar(text[i]) /\ \A j \in 1..(i - 1) : ~IsLaoChar(text[j])
             hi == CHOOSE i \in lo..Len(text) :
                     /\ \A j \in lo..i : IsLaoChar(text[j])
                     /\ (i = Len(text) \/ ~IsLaoChar(text[i + 1]))
         IN SubSeq(text, lo, hi)

\* Simplified romanisation fallback mapping
_ROMAN_MAP ==
       (3713 :> <<107>>)   \* U+0E81 -> "k"
    @@ (3714 :> <<107, 104>>)   \* U+0E82 -> "kh"
    @@ (3716 :> <<107, 104>>)   \* U+0E84 -> "kh"
    @@ (3719 :> <<110, 103>>)   \* U+0E87 -> "ng"
    @@ (3720 :> <<99, 104>>)   \* U+0E88 -> "ch"
    @@ (3754 :> <<115>>)   \* U+0EAA -> "s"
    @@ (3722 :> <<115>>)   \* U+0E8A -> "s"
    @@ (3732 :> <<100>>)   \* U+0E94 -> "d"
    @@ (3733 :> <<116>>)   \* U+0E95 -> "t"
    @@ (3737 :> <<110>>)   \* U+0E99 -> "n"
    @@ (3738 :> <<98>>)   \* U+0E9A -> "b"
    @@ (3739 :> <<112>>)   \* U+0E9B -> "p"
    @@ (3740 :> <<112, 104>>)   \* U+0E9C -> "ph"
    @@ (3741 :> <<102>>)   \* U+0E9D -> "f"
    @@ (3742 :> <<112, 104>>)   \* U+0E9E -> "ph"
    @@ (3743 :> <<102>>)   \* U+0E9F -> "f"
    @@ (3745 :> <<109>>)   \* U+0EA1 -> "m"
    @@ (3746 :> <<121>>)   \* U+0EA2 -> "y"
    @@ (3747 :> <<114>>)   \* U+0EA3 -> "r"
    @@ (3749 :> <<108>>)   \* U+0EA5 -> "l"
    @@ (3751 :> <<119>>)   \* U+0EA7 -> "w"
    @@ (3755 :> <<104>>)   \* U+0EAB -> "h"
    @@ (3757 :> <<111>>)   \* U+0EAD -> "o"
    @@ (3758 :> <<104>>)   \* U+0EAE -> "h"
    @@ (3760 :> <<97>>)   \* U+0EB0 -> "a"
    @@ (3762 :> <<97, 97>>)   \* U+0EB2 -> "aa"
    @@ (3764 :> <<105>>)   \* U+0EB4 -> "i"
    @@ (3765 :> <<105, 105>>)   \* U+0EB5 -> "ii"
    @@ (3768 :> <<117>>)   \* U+0EB8 -> "u"
    @@ (3769 :> <<117, 117>>)   \* U+0EB9 -> "uu"
    @@ (3776 :> <<101>>)   \* U+0EC0 -> "e"
    @@ (3777 :> <<97, 101>>)   \* U+0EC1 -> "ae"
    @@ (3778 :> <<111>>)   \* U+0EC2 -> "o"
    @@ (3780 :> <<97, 105>>)   \* U+0EC4 -> "ai"
    @@ (3779 :> <<97, 105>>)   \* U+0EC3 -> "ai"
    @@ (3761 :> <<97>>)   \* U+0EB1 -> "a"

_romanise_token(token) ==
    Concat([i \in 1..Len(token) |->
              IF token[i] \in DOMAIN _ROMAN_MAP THEN _ROMAN_MAP[token[i]] ELSE <<token[i]>>])

RECURSIVE JoinSpace(_)
JoinSpace(parts) ==
    IF parts = <<>> THEN <<>>
    ELSE IF Len(parts) = 1 THEN Head(parts)
    ELSE Head(parts) \o <<32>> \o JoinSpace(Tail(parts))

\* LaoTextProcessor.segment(text).romanised with the character-level
\* segmentation used when no LaoTokenizer is installed: one token per
\* character, romanised tokens joined by single spaces.
Romanise(text) ==
    IF ~Truthy(text) THEN <<>>
    ELSE JoinSpace([i \in 1..Len(text) |-> _romanise_token(<<text[i]>>)])

----------------------------------------------------------------------------
(* services/tutor.py: text normalisers *)

_normalize_key(text) ==
    IF ~Truthy(text) THEN <<>>
    ELSE LET KeepKey(c) == IsAsciiLetter(c) \/ IsAsciiDigit(c) \/ IsSpace(c)
         IN SelectSeq(Strip(Lower(text)), KeepKey)

NormalizeRomanisedText(text) ==
    IF ~Truthy(text) THEN <<>>
    ELSE SelectSeq(Lower(text), IsAsciiLetter)

----------------------------------------------------------------------------
(* difflib.SequenceMatcher(None, a, b).ratio() *)

\* Length of the common run of a and b that starts at a[i], b[j].
RECURSIVE CommonRun(_, _, _, _)
CommonRun(a, i, b, j) ==
    IF i > Len(a) \/ j > Len(b) \/ a[i] # b[j] THEN 0
    ELSE 1 + CommonRun(a, i + 1, b, j + 1)

\* The length of the common run at every pair of start positions.
Runs(a, b) == [i \in 1..Len(a) |-> [j \in 1..Len(b) |-> CommonRun(a, i, b, j)]]

\* The longest run length of the table, 0 when the table is empty.
LongestRun(sizes) == IF sizes = {} THEN 0 ELSE CHOOSE s \in sizes : \A t \in sizes : s >= t

\* The block of size k that starts in row i0 of a: the earliest in b.
BlockInRow(runs, k, i0) ==
    [i |-> i0,
     j |-> CHOOSE j \in 1..Len(runs[i0]) :
             /\ runs[i0][j] = k
             /\ \A j2 \in 1..(j - 1) : runs[i0][j2] # k,
     size |-> k]

\* The block of size k that starts earliest in a.
EarliestBlock(runs, k) ==
    IF k = 0 THEN [i |-> 1, j |-> 1, size |-> 0]
    ELSE BlockInRow(runs, k,
                    CHOOSE i \in 1..Len(runs) :
                      /\ \E j \in 1..Len(runs[i]) : runs[i][j] = k
                      /\ \A i2 \in 1..(i - 1) : \A j \in 1..Len(runs[i2]) : runs[i2][j] # k)

LongestBlock(runs) ==
    EarliestBlock(runs, LongestRun(UNION {{runs[i][j] : j \in 1..Len(runs[i])} :
                                            i \in 1..Len(runs)}))

\* find_longest_match: the longest matching block; of the longest blocks the
\* one that starts earliest in a, and of those the one earliest in b.
find_longest_match(a, b) == LongestBlock(Runs(a, b))

\* Sum of the sizes of get_matching_blocks(): the longest block m, then
\* recursively the pieces to its left and to its right.
RECURSIVE MatchCount(_, _)
MatchingAround(a, b, m) ==
    IF m.size = 0 THEN 0
    ELSE m.size
         + MatchCount(SubSeq(a, 1, m.i - 1), SubSeq(b, 1, m.j - 1))
         + MatchCount(SubSeq(a, m.i + m.size, Len(a)), SubSeq(b, m.j + m.size, Len(b)))

MatchCount(a, b) ==
    IF a = <<>> \/ b = <<>> THEN 0 ELSE MatchingAround(a, b, find_longest_match(a, b))

\* ratio() = 2.0 * matches / (len(a) + len(b)), and 1.0 for two empty
\* strings; kept as the exact fraction num/den.
SequenceMatcherRatio(a, b) ==
    IF Len(a) + Len(b) = 0 THEN [num |-> 1, den |-> 1]
    ELSE [num |-> 2 * MatchCount(a, b), den |-> Len(a) + Len(b)]

\* ratio >= pct/100
RatioAtLeast(r, pct) == r.num * 100 >= pct * r.den

\* r > s for two ratios
RatioGreater(r, s) == r.num * s.den > s.num * r.den

----------------------------------------------------------------------------
(* services/tutor.py: TutorEngine._load_phrase_bank *)

_load_phrase_bank ==
    <<
      [task |-> "day1_greetings", phrases |-> <<
          \* romanised "sabaadii", gloss "Hello"
          [phrase |-> <<3754, 3760, 3738, 3762, 3725, 3732, 3765>>,
           translation |-> <<72, 101, 108, 108, 111>>],
          \* romanised "khobaich", gloss "Thank you"
          [phrase |-> <<3714, 3757, 3738, 3779, 3720>>,
           translation |-> <<84, 104, 97, 110, 107, 32, 121, 111, 117>>],
          \* romanised "chngphuudsaa", gloss "Please speak slowly"
          [phrase |-> <<3720, 3771, 3784, 3719, 3742, 3769, 3732, 3722, 3785, 3762>>,
           translation |-> <<80, 108, 101, 97, 115, 101, 32, 115, 112, 101, 97, 107, 32, 115, 108, 111, 119, 108, 121>>],
          \* romanised "aansabaadiib", gloss "How are you?"
          [phrase |-> <<3735, 3784, 3762, 3737, 3754, 3760, 3738, 3762, 3725, 3732, 3765, 3738, 3789, 63>>,
           translation |-> <<72, 111, 119, 32, 97, 114, 101, 32, 121, 111, 117, 63>>],
          \* romanised "khosuksabaa", gloss "I'm doing well"
          [phrase |-> <<3714, 3785, 3757, 3725, 3754, 3768, 3713, 3754, 3760, 3738, 3762, 3725>>,
           translation |-> <<73, 39, 109, 32, 100, 111, 105, 110, 103, 32, 119, 101, 108, 108>>],
          \* romanised "sabaadiitonesaa", gloss "Good morning"
          [phrase |-> <<3754, 3760, 3738, 3762, 3725, 3732, 3765, 3733, 3757, 3737, 3776, 3722, 3771, 3785, 3762>>,
           translation |-> <<71, 111, 111, 100, 32, 109, 111, 114, 110, 105, 110, 103>>],
          \* romanised "sabaadiitonaelng", gloss "Good evening"
          [phrase |-> <<3754, 3760, 3738, 3762, 3725, 3732, 3765, 3733, 3757, 3737, 3777, 3749, 3719>>,
           translation |-> <<71, 111, 111, 100, 32, 101, 118, 101, 110, 105, 110, 103>>],
          \* romanised "khod", gloss "Sorry"
          [phrase |-> <<3714, 3789, 3778, 3735, 3732>>,
           translation |-> <<83, 111, 114, 114, 121>>],
          \* romanised "bepanhang", gloss "You're welcome"
          [phrase |-> <<3738, 3789, 3784, 3776, 3739, 3761, 3737, 3755, 3725, 3761, 3719>>,
           translation |-> <<89, 111, 117, 39, 114, 101, 32, 119, 101, 108, 99, 111, 109, 101>>]
      >>],
      [task |-> "numbers_0_10", phrases |-> <<
          \* romanised "suun", gloss "0"
          [phrase |-> <<3754, 3769, 3737>>,
           translation |-> <<48>>],
          \* romanised "ng", gloss "1"
          [phrase |-> <<3804, 3766, 3784, 3719>>,
           translation |-> <<49>>],
          \* romanised "song", gloss "2"
          [phrase |-> <<3754, 3757, 3719>>,
           translation |-> <<50>>]
      >>]
    >>

\* Every (task, phrase, translation) of the bank in iteration order
\* (for task, phrases in bank.items(): for phrase, translation in phrases.items()).
ItemsOf(bank) ==
    Concat([t \in 1..Len(bank) |->
              [p \in 1..Len(bank[t].phrases) |->
                 [task |-> bank[t].task,
                  phrase |-> bank[t].phrases[p].phrase,
                  translation |-> bank[t].phrases[p].translation]]])

BankItems == ItemsOf(_load_phrase_bank)

TasksOf(bank) == {bank[t].task : t \in 1..Len(bank)}

TaskIds == TasksOf(_load_phrase_bank)

\* bank.get(task, {}) as the ordered list of the task's items
BankOf(bank, task) ==
    IF task \in TasksOf(bank)
    THEN bank[CHOOSE t \in 1..Len(bank) : bank[t].task = task].phrases
    ELSE <<>>

get_phrase_bank(task) == BankOf(_load_phrase_bank, task)

\* phrases.get(text) on the ordered items of one task
DictGet(bank, text) ==
    LET hits == {i \in 1..Len(bank) : bank[i].phrase = text}
    IN IF hits = {} THEN None ELSE bank[CHOOSE i \in hits : TRUE].translation

\* self._phrase_bank.get(task, {}).get(text)
BankGloss(task, text) ==
    DictGet(get_phrase_bank(task), text)

----------------------------------------------------------------------------
(* Bounds and inputs *)

\* How many of the leading phrases of day1_greetings the learner can say.
MaxDay1Spoken == 1

\* A Lao word outside the bank, and what the translators may answer.
LaoOutsideBank == <<3735, 3771, 3732, 3749, 3757, 3719>>
LoEnOutputs == {<<116, 101, 115, 116>>}
EnLoOutputs == {<<3735, 3771, 3732, 32, 111, 107>>, <<104, 111, 108, 97>>}

\* The first n phrases of a bank.
LeadingPhrases(bank, n) == {bank[i].phrase : i \in 1..Min(n, Len(bank))}

LaoTranscripts ==
    LeadingPhrases(get_phrase_bank("day1_greetings"), MaxDay1Spoken)
    \cup LeadingPhrases(get_phrase_bank("numbers_0_10"), Len(BankItems))
    \cup {LaoOutsideBank}

\* "sabaidee", "sabaadii", "Hello", "xyz" and "sorry song", which resembles
\* the romanisation of one phrase and holds the gloss of another
LatinTranscripts ==
    {<<115, 97, 98, 97, 105, 100, 101, 101>>,
     <<115, 97, 98, 97, 97, 100, 105, 105>>,
     <<72, 101, 108, 108, 111>>,
     <<120, 121, 122>>,
     <<115, 111, 114, 114, 121, 32, 115, 111, 110, 103>>}

Transcripts == {<<>>} \cup LaoTranscripts \cup LatinTranscripts

TaskInputs == {NoTask} \cup TaskIds \cup {"colours"}


\* Every text the model handles: what is heard, the bank, and the Lao runs the
\* reverse translator may produce.
ModelTexts ==
    Transcripts
    \cup LeadingPhrases(BankItems, Len(BankItems))
    \cup {extract_first_lao_segment(t) : t \in EnLoOutputs}

\* The romanisations, normalised keys and similarity ratios of the model's
\* texts, computed once (f @@ <<>> is f, written out as a table).
SegmentTable == [t \in ModelTexts |-> Romanise(t)] @@ <<>>

segment(text) == SegmentTable[text]

\* The texts with their romanisations.
WithRomanised(texts) == texts \cup {segment(t) : t \in texts}

NormalizeTable ==
    [t \in WithRomanised(ModelTexts) |-> NormalizeRomanisedText(t)] @@ <<>>

_normalize_romanised(text) == NormalizeTable[text]

Range(f) == {f[x] : x \in DOMAIN f}

Pairs(S) == S \X S

RatioTable ==
    [p \in Pairs(Range(NormalizeTable)) |-> SequenceMatcherRatio(p[1], p[2])] @@ <<>>

ratio(a, b) == RatioTable[<<a, b>>]

----------------------------------------------------------------------------
(* services/tutor.py: fuzzy phrase matchers *)

NoMatch == [phrase |-> None, translation |-> None]

\* The value _get_cached_romanised stores for a phrase.
RomanisedKey(phrase) == _normalize_romanised(segment(phrase))

\* _get_cached_romanised returns the cached key when present and the computed
\* one otherwise; the cache only ever holds RomanisedKey(phrase) for a phrase.
_get_cached_romanised(phrase) == RomanisedKey(phrase)

MIN_ROMANISED_PCT == 55
SCRIPT_MATCH_PCT == 75
REPEAT_MATCH_PCT == 65

\* best_phrase, best_translation of a scan of the bank
BestMatch(best) == [phrase |-> best.phrase, translation |-> best.translation]

\* The body of the loop of _find_phrase_by_translation for one item, its
\* gloss normalised to candidate; best carries best_score.
TranslationItem(item, candidate, normalized, best) ==
    IF \/ ~Truthy(item.translation)
       \/ candidate = <<>>
       \/ /\ candidate # normalized
          /\ ~IsSubstring(candidate, normalized)
          /\ ~IsSubstring(normalized, candidate)
       \/ ~(Len(candidate) > best.score)
    THEN best
    ELSE [phrase |-> item.phrase, translation |-> item.translation,
          score |-> Len(candidate)]

RECURSIVE TranslationScan(_, _, _)
TranslationScan(items, normalized, best) ==
    IF items = <<>> THEN best
    ELSE TranslationScan(Tail(items), normalized,
                         TranslationItem(Head(items), _normalize_key(Head(items).translation),
                                         normalized, best))

TranslationQuery(normalized) ==
    IF normalized = <<>> THEN NoMatch
    ELSE BestMatch(TranslationScan(BankItems, normalized,
                                   [phrase |-> None, translation |-> None, score |-> 0]))

FindPhraseByTranslation(text) ==
    IF ~Truthy(text) THEN NoMatch ELSE TranslationQuery(_normalize_key(text))

\* _find_phrase_by_translation(text) on an engine whose _phrase_bank is bank
FindPhraseByTranslationIn(bank, text) ==
    IF ~Truthy(text) \/ _normalize_key(text) = <<>> THEN NoMatch
    ELSE BestMatch(TranslationScan(ItemsOf(bank), _normalize_key(text),
                                   [phrase |-> None, translation |-> None, score |-> 0]))

TranslationMatchTable == [t \in Transcripts |-> FindPhraseByTranslation(t)] @@ <<>>

_find_phrase_by_translation(text) == TranslationMatchTable[text]

\* The body of the loop of _find_phrase_by_romanised for one item with the
\* similarity r of its key to the query; best carries best_score.
RomanisedItem(item, romanised_key, r, best) ==
    IF \/ romanised_key = <<>>
       \/ ~RatioAtLeast(r, MIN_ROMANISED_PCT)
       \/ ~RatioGreater(r, best.score)
    THEN best
    ELSE [phrase |-> item.phrase, translation |-> item.translation, score |-> r]

RomanisedCandidate(item, romanised_key, normalized_query, best) ==
    RomanisedItem(item, romanised_key, ratio(normalized_query, romanised_key), best)

RECURSIVE RomanisedScan(_, _, _)
RomanisedScan(items, normalized_query, best) ==
    IF items = <<>> THEN best
    ELSE RomanisedScan(Tail(items), normalized_query,
                       RomanisedCandidate(Head(items),
                                          _get_cached_romanised(Head(items).phrase),
                                          normalized_query, best))

RomanisedQuery(normalized_query) ==
    IF normalized_query = <<>> THEN NoMatch
    ELSE BestMatch(RomanisedScan(BankItems, normalized_query,
                                 [phrase |-> None, translation |-> None,
                                  score |-> [num |-> 0, den |-> 1]]))

FindPhraseByRomanised(text) == RomanisedQuery(_normalize_romanised(text))

RomanisedMatchTable == [t \in Transcripts |-> FindPhraseByRomanised(t)] @@ <<>>

_find_phrase_by_romanised(text) == RomanisedMatchTable[text]

\* The cache after _find_phrase_by_romanised(text): every bank phrase is keyed
\* once the query is not empty.
FullCache ==
    [p \in LeadingPhrases(BankItems, Len(BankItems)) |-> _get_cached_romanised(p)] @@ <<>>

CacheAfterSearch(cache, text) ==
    IF _normalize_romanised(text) = <<>> THEN cache ELSE FullCache

----------------------------------------------------------------------------
(* services/tutor.py: curriculum / focus tracker *)

\* An assignment that forgets the index of every other task.
SetIndexForgettingOthers(indices, task, v) == (task :> v)

\* self._focus_indices[task] = v
SetIndex(indices, task, v) ==
    [t \in DOMAIN indices \cup {task} |-> IF t = task THEN v ELSE indices[t]]

\* self._focus_indices.get(task, 0)
IndexOf(indices, task) == IF task \in DOMAIN indices THEN indices[task] ELSE 0

\* The override taken only for a task of the phrase bank.
EffectiveTaskOfTheBank(cur, task_id) == IF task_id \in TaskIds THEN task_id ELSE cur

\* task_id or self.state.current_task
EffectiveTask(cur, task_id) == IF task_id # NoTask THEN task_id ELSE cur

_current_focus(indices, cur, task_id) ==
    LET task == EffectiveTask(cur, task_id)
        bank == get_phrase_bank(task)
    IN IF bank = <<>>
       THEN [phrase |-> None, translation |-> None, indices |-> indices]
       ELSE LET ind2 == IF task \in DOMAIN indices THEN indices ELSE SetIndex(indices, task, 0)
                index == Min(ind2[task], Len(bank) - 1)
            IN [phrase |-> bank[index + 1].phrase,
                translation |-> bank[index + 1].translation,
                indices |-> ind2]

\* _advance_focus starting the task again after its last phrase.
_advance_focus_wrapping(indices, cur, task_id) ==
    LET task == EffectiveTask(cur, task_id)
        bank == get_phrase_bank(task)
        current_index == IndexOf(indices, task)
    IN IF bank = <<>> THEN indices
       ELSE SetIndex(indices, task, (current_index + 1) % Len(bank))

\* _advance_focus stepping over a phrase (current_index + 2).
_advance_focus_two_steps(indices, cur, task_id) ==
    LET task == EffectiveTask(cur, task_id)
        bank == get_phrase_bank(task)
        total == Len(bank)
        current_index == IndexOf(indices, task)
    IN IF bank = <<>> THEN indices
       ELSE IF current_index + 1 < total
       THEN SetIndex(indices, task, Min(current_index + 2, total - 1))
       ELSE indices

\* _advance_focus without the test against the length of the bank.
_advance_focus_unbounded(indices, cur, task_id) ==
    LET task == EffectiveTask(cur, task_id)
    IN IF get_phrase_bank(task) = <<>> THEN indices
       ELSE SetIndex(indices, task, IndexOf(indices, task) + 1)

_advance_focus(indices, cur, task_id) ==
    LET task == EffectiveTask(cur, task_id)
        bank == get_phrase_bank(task)
        total == Len(bank)
        current_index == IndexOf(indices, task)
    IN IF bank = <<>> THEN indices
       ELSE IF current_index + 1 < total THEN SetIndex(indices, task, current_index + 1)
       ELSE indices

----------------------------------------------------------------------------
(* services/translation.py and the feedback value *)

NoTranslation == [direction |-> "none", text |-> None]

\* TranslationService.translate(text): None for empty text, for a missing
\* pipeline, for a failed call and for empty output; otherwise the stripped
\* output with the direction chosen from the script of the input.
TranslationDirection(text) == IF contains_lao_characters(text) THEN "lo->en" ELSE "en->lo"

\* What TranslationService.translate may answer for a text.
TranslatorAnswers(is_ready, text) ==
    {NoTranslation} \cup
    (IF ~is_ready \/ ~Truthy(text) THEN {}
     ELSE {[direction |-> TranslationDirection(text), text |-> t] :
             t \in IF contains_lao_characters(text) THEN LoEnOutputs ELSE EnLoOutputs})

\* A correction hint: the fixed sentence (kind) and the values formatted into it.
Hint(kind, translation, phrase, romanised) ==
    [kind |-> kind, translation |-> translation, phrase |-> phrase, romanised |-> romanised]

PlainHint(kind) == Hint(kind, None, None, None)

NoPraise == "None"

\* "let's keep going."
LetsKeepGoing == <<108, 101, 116, 39, 115, 32, 107, 101, 101, 112, 32, 103, 111, 105, 110, 103, 46>>

SegmentFeedback(lao_text, romanised, translation, corrections, praise, review_card_ids, focus_phrase, focus_translation, focus_romanised) ==
    [lao_text |-> lao_text, romanised |-> romanised, translation |-> translation,
     corrections |-> corrections, praise |-> praise, review_card_ids |-> review_card_ids,
     focus_phrase |-> focus_phrase, focus_translation |-> focus_translation,
     focus_romanised |-> focus_romanised]

\* The feedback returned while the speech recogniser is not loaded.
\* The ASR-unavailable return carrying the no-speech hint instead of its own.
AsrUnavailableFeedbackWrongHint ==
    SegmentFeedback(<<>>, <<>>, None, <<PlainHint("didnt_catch")>>, NoPraise, <<>>,
                    None, None, None)

AsrUnavailableFeedback ==
    SegmentFeedback(<<>>, <<>>, None, <<PlainHint("still_preparing")>>, NoPraise, <<>>,
                    None, None, None)

\* The no-speech feedback without its hint.
NoSpeechFeedbackWithoutHint ==
    SegmentFeedback(<<>>, <<>>, None, <<>>, NoPraise, <<>>, None, None, None)

\* The feedback returned when voice-activity detection hears nothing.
NoSpeechFeedback ==
    SegmentFeedback(<<>>, <<>>, None, <<PlainHint("didnt_catch")>>, NoPraise, <<>>,
                    None, None, None)

\* The turn raised before any feedback was built.
NoFeedback == [returned |-> FALSE]

\* What a turn has done: what VAD answered ("not_called", "no_speech", "speech"),
\* whether ASR and the translator were called, whether the bank matchers ran,
\* whether the transcript was tested against the expected phrase, whether
\* that test read awaiting_repeat as true, and whether a branch of lines
\* 340-459 set focus_phrase.
Calls(vad, asr, translator, matchers, match_check, awaiting_read, branch_focus) ==
    [vad |-> vad, asr |-> asr, translator |-> translator, matchers |-> matchers,
     match_check |-> match_check, awaiting_read |-> awaiting_read,
     branch_focus |-> branch_focus]

----------------------------------------------------------------------------
(* services/tutor.py: TutorEngine.process_audio, step by step *)

\* The translator call without the test of asr_result.text.
TranslatorConsultedOnEmptyText(translation, asr_text) == translation = None

\* if translation is None and asr_result.text: the translator is called
TranslatorConsulted(translation, asr_text) == translation = None /\ Truthy(asr_text)

\* Gloss resolution: exact lookup in the current task, else the translator.
ResolveGloss(cur, asr_text, tr) ==
    LET looked_up == BankGloss(cur, asr_text)
    IN IF ~TranslatorConsulted(looked_up, asr_text) \/ tr = NoTranslation
       THEN [translation |-> looked_up, focus_from_translation |-> None]
       ELSE IF tr.direction = "lo->en"
       THEN [translation |-> tr.text, focus_from_translation |-> None]
       ELSE [translation |-> Or(looked_up, asr_text),
             focus_from_translation |-> extract_first_lao_segment(tr.text)]

\* The Lao-script test at the threshold of the awaited repeat.
ScriptMatchAtRepeatThreshold(expected_phrase, heard_normalised, expected_normalised) ==
    /\ Truthy(expected_phrase)
    /\ Truthy(heard_normalised)
    /\ Truthy(expected_normalised)
    /\ RatioAtLeast(ratio(heard_normalised, expected_normalised), REPEAT_MATCH_PCT)

\* The Lao-script test of the transcript against the expected phrase.
ScriptMatch(expected_phrase, heard_normalised, expected_normalised) ==
    /\ Truthy(expected_phrase)
    /\ Truthy(heard_normalised)
    /\ Truthy(expected_normalised)
    /\ RatioAtLeast(ratio(heard_normalised, expected_normalised), SCRIPT_MATCH_PCT)

\* The relaxed test of a Latin-letter transcript while a repeat is awaited.
RepeatMatch(awaiting, expected_phrase, expected_normalised, heard_ascii) ==
    /\ awaiting
    /\ Truthy(expected_phrase)
    /\ Truthy(expected_normalised)
    /\ Truthy(heard_ascii)
    /\ RatioAtLeast(ratio(heard_ascii, expected_normalised), REPEAT_MATCH_PCT)

Outcome(focus_phrase, focus_translation, focus_romanised, praise, success, completed_focus, translation, corrections) ==
    [focus_phrase |-> focus_phrase, focus_translation |-> focus_translation,
     focus_romanised |-> focus_romanised, praise |-> praise, success |-> success,
     completed_focus |-> completed_focus, translation |-> translation,
     corrections |-> corrections]

\* A branch that sets the focus and appends the hint of the given kind
\* about it (lines 385-418); translation becomes focus_translation.
TeachFocus(kind, focus_phrase, focus_translation, focus_romanised) ==
    Outcome(focus_phrase, focus_translation, focus_romanised, NoPraise, FALSE, None,
            focus_translation,
            <<Hint(kind, focus_translation, focus_phrase, focus_romanised)>>)

\* Lines 376-382: the repeat of the expected phrase was accepted.
RepeatAccepted(expected_phrase, focus_translation, focus_romanised) ==
    Outcome(expected_phrase, focus_translation, focus_romanised, "great_job_repeating",
            TRUE, expected_phrase, focus_translation, <<>>)

\* Lines 345-361: a transcript in Lao script.
LaoBranch(asr_text, romanised, translation, expected_phrase, expected_translation, expected_romanised, heard_normalised, expected_normalised) ==
    IF ScriptMatch(expected_phrase, heard_normalised, expected_normalised)
    THEN Outcome(expected_phrase, Or(expected_translation, translation),
                 Or(expected_romanised, romanised), "pronunciation_improving",
                 TRUE, expected_phrase, translation, <<>>)
    ELSE Outcome(asr_text, translation, romanised, NoPraise, FALSE, None,
                 translation, <<>>)

\* The elif chain with the translation matcher tried before the romanised one.
LatinFallThroughTranslationFirst(asr_text, translation, focus_from_translation, rom, mat) ==
    IF Truthy(mat.phrase)
    THEN TeachFocus("lets_learn", mat.phrase,
                    Or(mat.translation, Or(translation, asr_text)), segment(mat.phrase))
    ELSE IF Truthy(rom.phrase)
    THEN TeachFocus("lets_learn", rom.phrase,
                    Or(rom.translation, Or(translation, asr_text)), segment(rom.phrase))
    ELSE IF Truthy(focus_from_translation)
    THEN TeachFocus("lets_practise", focus_from_translation,
                    Or(translation, asr_text), segment(focus_from_translation))
    ELSE IF Truthy(translation)
    THEN Outcome(None, None, None, NoPraise, FALSE, None, translation,
                 <<Hint("map_english", translation, None, None)>>)
    ELSE Outcome(None, None, None, NoPraise, FALSE, None, translation,
                 <<PlainHint("heard_english")>>)

\* Lines 383-420: the elif chain of a Latin-letter transcript that was not
\* accepted as a repeat; rom and mat are what the two matchers returned.
LatinFallThrough(asr_text, translation, focus_from_translation, rom, mat) ==
    IF Truthy(rom.phrase)
    THEN TeachFocus("lets_learn", rom.phrase,
                    Or(rom.translation, Or(translation, asr_text)), segment(rom.phrase))
    ELSE IF Truthy(mat.phrase)
    THEN TeachFocus("lets_learn", mat.phrase,
                    Or(mat.translation, Or(translation, asr_text)), segment(mat.phrase))
    ELSE IF Truthy(focus_from_translation)
    THEN TeachFocus("lets_practise", focus_from_translation,
                    Or(translation, asr_text), segment(focus_from_translation))
    ELSE IF Truthy(translation)
    THEN Outcome(None, None, None, NoPraise, FALSE, None, translation,
                 <<Hint("map_english", translation, None, None)>>)
    ELSE Outcome(None, None, None, NoPraise, FALSE, None, translation,
                 <<PlainHint("heard_english")>>)

\* Lines 362-420: a transcript in Latin letters.
LatinBranch(awaiting, asr_text, translation, focus_from_translation, expected_phrase, expected_translation, expected_romanised, expected_normalised, heard_ascii) ==
    IF RepeatMatch(awaiting, expected_phrase, expected_normalised, heard_ascii)
    THEN RepeatAccepted(expected_phrase,
                        Or(expected_translation, Or(translation, asr_text)),
                        Or(expected_romanised, segment(expected_phrase)))
    ELSE LatinFallThrough(asr_text, translation, focus_from_translation,
                          _find_phrase_by_romanised(asr_text),
                          _find_phrase_by_translation(asr_text))

\* Lines 344-420: the branch on the script of a non-empty transcript.
MatchTranscript(awaiting, asr_text, romanised, translation, focus_from_translation, expected_phrase, expected_translation, expected_romanised, expected_normalised) ==
    IF contains_lao_characters(asr_text)
    THEN LaoBranch(asr_text, romanised, translation, expected_phrase, expected_translation,
                   expected_romanised, _normalize_romanised(romanised), expected_normalised)
    ELSE LatinBranch(awaiting, asr_text, translation, focus_from_translation,
                     expected_phrase, expected_translation, expected_romanised,
                     expected_normalised, _normalize_romanised(asr_text))

\* _register_success without the call of _advance_focus.
_register_success_without_advance(indices, cur, task_id) ==
    [awaiting_repeat |-> FALSE, indices |-> indices]

\* _register_success: clears awaiting_repeat and advances the focus.
_register_success(indices, cur, task_id) ==
    [awaiting_repeat |-> FALSE, indices |-> _advance_focus(indices, cur, task_id)]

\* The review logged in the last branch without the second "if success".
ReviewLoggedWithoutSuccess(success, translation) ==
    /\ ~success
    /\ translation # None

\* Lines 447-450: in the last branch of "if success / elif translation is
\* None / else", the review is logged under a second "if success".
ReviewLogged(success, translation) ==
    /\ ~success
    /\ translation # None
    /\ success

\* The outcome of a branch with the engine's flag and indices after it and
\* the review rows it wrote.
WithEngine(o, awaiting, indices, logged) ==
    o @@ [awaiting_repeat |-> awaiting, indices |-> indices, logged |-> logged]

\* Lines 426-436: the next phrase becomes the focus and is announced.
PresentNext(o, next_phrase, focus_translation, focus_romanised) ==
    [o EXCEPT !.focus_phrase = next_phrase,
              !.focus_translation = focus_translation,
              !.focus_romanised = focus_romanised,
              !.translation = Or(focus_translation, o.translation),
              !.corrections = Append(o.corrections,
                  Hint("next_phrase", Or(focus_translation, LetsKeepGoing), next_phrase,
                       focus_romanised))]

\* Lines 424-438 with nxt what _current_focus returned after the success.
AfterSuccess(o, awaiting, nxt) ==
    WithEngine(IF Truthy(nxt.phrase)
               THEN PresentNext(o, nxt.phrase, Or(nxt.translation, o.focus_translation),
                                segment(nxt.phrase))
               ELSE [o EXCEPT !.translation = Or(o.focus_translation, o.translation)],
               awaiting, nxt.indices, <<>>)

\* Lines 423-424: _register_success, then _current_focus.
Registered(o, reg, cur, task_id) ==
    AfterSuccess(o, reg.awaiting_repeat, _current_focus(reg.indices, cur, task_id))

\* Lines 422-459 on the outcome of the branch: the state changes, the
\* corrections added and the review logged.
AfterMatch(o, awaiting, indices, cur, task_id, asr_text, translator_is_ready) ==
    IF o.success
    THEN Registered(o, _register_success(indices, cur, task_id), cur, task_id)
    ELSE IF o.translation = None
    THEN WithEngine([o EXCEPT !.corrections = Append(o.corrections,
                        PlainHint(IF translator_is_ready THEN "focus_target"
                                  ELSE "focus_target_translator_downloading"))],
                    awaiting, indices, <<>>)
    ELSE WithEngine(o, awaiting, indices,
                    IF ReviewLogged(o.success, o.translation)
                    THEN <<[card_id |-> Or(o.completed_focus, Or(o.focus_phrase, asr_text)),
                            ease |-> 1]>>
                    ELSE <<>>)

\* The fallback never taken.
NeverFallsBack(focus_phrase, expected_phrase) == FALSE

\* Line 470: if not focus_phrase and expected_phrase
FallsBack(focus_phrase, expected_phrase) == ~Truthy(focus_phrase) /\ Truthy(expected_phrase)

\* Lines 461-502: review ids, the fallback to the expected phrase and the
\* feedback value.
AssembleFeedback(a, asr_text, romanised, expected_phrase, expected_translation, expected_romanised) ==
    LET focus_romanised1 ==
            IF Truthy(a.focus_phrase) /\ ~Truthy(a.focus_romanised)
            THEN segment(a.focus_phrase) ELSE a.focus_romanised
        review_ids ==
            IF Truthy(a.focus_phrase) THEN <<a.focus_phrase>>
            ELSE IF Truthy(a.translation) THEN <<asr_text>>
            ELSE <<>>
        fallback == FallsBack(a.focus_phrase, expected_phrase)
        focus_phrase == IF fallback THEN expected_phrase ELSE a.focus_phrase
        focus_translation ==
            IF fallback THEN Or(expected_translation, a.translation) ELSE a.focus_translation
        focus_romanised ==
            IF fallback THEN Or(expected_romanised, focus_romanised1) ELSE focus_romanised1
        translation == IF fallback THEN Or(focus_translation, a.translation) ELSE a.translation
        corrections ==
            IF fallback /\ ~a.success
            THEN Append(a.corrections,
                        Hint("lets_stay", focus_translation, focus_phrase, focus_romanised))
            ELSE a.corrections
    IN SegmentFeedback(asr_text, romanised, translation, corrections, a.praise, review_ids,
                       focus_phrase, Or(focus_translation, translation), focus_romanised)

\* The engine state a turn reads and writes.
EngineState(cur, awaiting, indices, cache) ==
    [current_task |-> cur, awaiting_repeat |-> awaiting, indices |-> indices,
     cache |-> cache]

\* AsrService.transcribe has no handler around the model's decoding: an error
\* there leaves process_audio as an exception.
AsrRaises == <<-2>>

\* What process_audio hands back to the model: the engine state after the
\* call, whether it raised, the feedback, and what the turn did.
TurnResult(state, raised, feedback, success, logged, calls) ==
    [state |-> state, raised |-> raised, feedback |-> feedback, success |-> success,
     logged |-> logged, calls |-> calls]

\* Lines 461-502 for the outcome o of lines 340-459.
Assembled(st, cur, asr_text, romanised, cf, expected_romanised, consulted, latin, o) ==
    TurnResult(EngineState(cur, o.awaiting_repeat, o.indices,
                         IF latin THEN CacheAfterSearch(st.cache, asr_text) ELSE st.cache),
             FALSE,
             AssembleFeedback(o, asr_text, romanised, cf.phrase, cf.translation,
                              expected_romanised),
             o.success, o.logged,
             Calls("speech", TRUE, consulted, latin, Truthy(asr_text),
                   latin /\ st.awaiting_repeat, Truthy(o.focus_phrase)))

\* Lines 340-459 for a transcript with its romanisation and gloss.
Transcribed(st, cur, translator_is_ready, task_id, asr_text, romanised, gloss, cf, expected_romanised) ==
    Assembled(st, cur, asr_text, romanised, cf, expected_romanised,
              TranslatorConsulted(BankGloss(cur, asr_text), asr_text),
              Truthy(asr_text) /\ ~contains_lao_characters(asr_text),
              IF ~Truthy(asr_text)
              THEN WithEngine(Outcome(None, None, None, NoPraise, FALSE, None,
                                      gloss.translation, <<PlainHint("try_repeating")>>),
                              st.awaiting_repeat, cf.indices, <<>>)
              ELSE AfterMatch(
                     MatchTranscript(st.awaiting_repeat, asr_text, romanised,
                                     gloss.translation, gloss.focus_from_translation,
                                     cf.phrase, cf.translation, expected_romanised,
                                     _normalize_romanised(expected_romanised)),
                     st.awaiting_repeat, cf.indices, cur, task_id, asr_text,
                     translator_is_ready))

\* Lines 270-322 with the expected focus known: VAD, ASR, the romanisation
\* and the gloss of the transcript.
Listened(st, cur, translator_is_ready, task_id, has_speech, asr_text, tr, cf, expected_romanised) ==
    IF ~has_speech
    THEN TurnResult([st EXCEPT !.current_task = cur, !.indices = cf.indices], FALSE,
                  NoSpeechFeedback, FALSE, <<>>,
                  Calls("no_speech", FALSE, FALSE, FALSE, FALSE, FALSE, FALSE))
    ELSE IF asr_text = AsrRaises
    THEN TurnResult([st EXCEPT !.current_task = cur, !.indices = cf.indices], TRUE,
                  NoFeedback, FALSE, <<>>,
                  Calls("speech", TRUE, FALSE, FALSE, FALSE, FALSE, FALSE))
    ELSE Transcribed(st, cur, translator_is_ready, task_id, asr_text, segment(asr_text),
                     ResolveGloss(cur, asr_text, tr), cf, expected_romanised)

\* Lines 264-267 with the focus cf that _current_focus returned.
Expecting(st, cur, translator_is_ready, task_id, has_speech, asr_text, tr, cf) ==
    Listened(st, cur, translator_is_ready, task_id, has_speech, asr_text, tr, cf,
             IF Truthy(cf.phrase) THEN segment(cf.phrase) ELSE <<>>)

\* Lines 249-264 once the task override of lines 238-240 made cur the
\* current task.
OnTask(st, cur, is_asr_ready, translator_is_ready, task_id, has_speech, asr_text, tr) ==
    IF ~is_asr_ready
    THEN TurnResult([st EXCEPT !.current_task = cur], FALSE, AsrUnavailableFeedback, FALSE,
                  <<>>, Calls("not_called", FALSE, FALSE, FALSE, FALSE, FALSE, FALSE))
    ELSE Expecting(st, cur, translator_is_ready, task_id, has_speech, asr_text, tr,
                   _current_focus(st.indices, cur, task_id))

\* process_audio(audio, sample_rate, task_id) for an audio buffer on which VAD
\* answers has_speech, ASR answers asr_text (or raises) and the translator
\* answers tr.
process_audio(st, is_asr_ready, translator_is_ready, task_id, has_speech, asr_text, tr) ==
    OnTask(st, EffectiveTask(st.current_task, task_id), is_asr_ready, translator_is_ready,
           task_id, has_speech, asr_text, tr)

----------------------------------------------------------------------------
(* services/llm.py: the sentences of a reply *)

\* "Sabaidee! I'm your Lao tutor. We'll take things step by step."
GreetingText ==
    <<83, 97, 98, 97, 105, 100, 101, 101, 33, 32, 73, 39, 109, 32, 121, 111, 117, 114, 32,
      76, 97, 111, 32, 116, 117, 116, 111, 114, 46, 32, 87, 101, 39, 108, 108, 32, 116,
      97, 107, 101, 32, 116, 104, 105, 110, 103, 115, 32, 115, 116, 101, 112, 32, 98, 121,
      32, 115, 116, 101, 112, 46>>

\* " Our first focus is “"
FirstFocusOpen ==
    <<32, 79, 117, 114, 32, 102, 105, 114, 115, 116, 32, 102, 111, 99, 117, 115, 32, 105,
      115, 32, 8220>>

\* "” ("
FirstFocusMid ==
    <<8221, 32, 40>>

\* ") – "
FirstFocusClose ==
    <<41, 32, 8211, 32>>

\* "a friendly greeting."
DefaultIntroTranslation ==
    <<97, 32, 102, 114, 105, 101, 110, 100, 108, 121, 32, 103, 114, 101, 101, 116, 105,
      110, 103, 46>>

\* "I'm still downloading the speech models so I might miss what you say. Keep the server running and I'll start listening as soon as Whisper finishes syncing."
StillDownloadingText ==
    <<73, 39, 109, 32, 115, 116, 105, 108, 108, 32, 100, 111, 119, 110, 108, 111, 97, 100,
      105, 110, 103, 32, 116, 104, 101, 32, 115, 112, 101, 101, 99, 104, 32, 109, 111,
      100, 101, 108, 115, 32, 115, 111, 32, 73, 32, 109, 105, 103, 104, 116, 32, 109, 105,
      115, 115, 32, 119, 104, 97, 116, 32, 121, 111, 117, 32, 115, 97, 121, 46, 32, 75,
      101, 101, 112, 32, 116, 104, 101, 32, 115, 101, 114, 118, 101, 114, 32, 114, 117,
      110, 110, 105, 110, 103, 32, 97, 110, 100, 32, 73, 39, 108, 108, 32, 115, 116, 97,
      114, 116, 32, 108, 105, 115, 116, 101, 110, 105, 110, 103, 32, 97, 115, 32, 115,
      111, 111, 110, 32, 97, 115, 32, 87, 104, 105, 115, 112, 101, 114, 32, 102, 105, 110,
      105, 115, 104, 101, 115, 32, 115, 121, 110, 99, 105, 110, 103, 46>>

\* "I heard you say ""
HeardOpen ==
    <<73, 32, 104, 101, 97, 114, 100, 32, 121, 111, 117, 32, 115, 97, 121, 32, 34>>

\* ". In English, that means ""
HeardMeans ==
    <<46, 32, 73, 110, 32, 69, 110, 103, 108, 105, 115, 104, 44, 32, 116, 104, 97, 116,
      32, 109, 101, 97, 110, 115, 32, 34>>

\* "" in English. Let's express that in Lao together."
HeardEnglishClose ==
    <<34, 32, 105, 110, 32, 69, 110, 103, 108, 105, 115, 104, 46, 32, 76, 101, 116, 39,
      115, 32, 101, 120, 112, 114, 101, 115, 115, 32, 116, 104, 97, 116, 32, 105, 110, 32,
      76, 97, 111, 32, 116, 111, 103, 101, 116, 104, 101, 114, 46>>

\* "We'll learn this meaning together."
DefaultObservedTranslation ==
    <<87, 101, 39, 108, 108, 32, 108, 101, 97, 114, 110, 32, 116, 104, 105, 115, 32, 109,
      101, 97, 110, 105, 110, 103, 32, 116, 111, 103, 101, 116, 104, 101, 114, 46>>

\* "Let's practise ""
PractiseOpen ==
    <<76, 101, 116, 39, 115, 32, 112, 114, 97, 99, 116, 105, 115, 101, 32, 34>>

\* " – ""
PractiseDash ==
    <<32, 8211, 32, 34>>

\* ""."
QuoteStop ==
    <<34, 46>>

\* "our target phrase today."
DefaultGloss ==
    <<111, 117, 114, 32, 116, 97, 114, 103, 101, 116, 32, 112, 104, 114, 97, 115, 101, 32,
      116, 111, 100, 97, 121, 46>>

\* "Repeat it aloud and pay close attention to the tone contour."
RepeatAloudText ==
    <<82, 101, 112, 101, 97, 116, 32, 105, 116, 32, 97, 108, 111, 117, 100, 32, 97, 110,
      100, 32, 112, 97, 121, 32, 99, 108, 111, 115, 101, 32, 97, 116, 116, 101, 110, 116,
      105, 111, 110, 32, 116, 111, 32, 116, 104, 101, 32, 116, 111, 110, 101, 32, 99, 111,
      110, 116, 111, 117, 114, 46>>

\* "ສະບາຍດີ! I can guide you through Lao basics once vocabulary is loaded. Ask me about greetings or numbers to begin."
FallbackNoVocabularyText ==
    <<3754, 3760, 3738, 3762, 3725, 3732, 3765, 33, 32, 73, 32, 99, 97, 110, 32, 103, 117,
      105, 100, 101, 32, 121, 111, 117, 32, 116, 104, 114, 111, 117, 103, 104, 32, 76, 97,
      111, 32, 98, 97, 115, 105, 99, 115, 32, 111, 110, 99, 101, 32, 118, 111, 99, 97, 98,
      117, 108, 97, 114, 121, 32, 105, 115, 32, 108, 111, 97, 100, 101, 100, 46, 32, 65,
      115, 107, 32, 109, 101, 32, 97, 98, 111, 117, 116, 32, 103, 114, 101, 101, 116, 105,
      110, 103, 115, 32, 111, 114, 32, 110, 117, 109, 98, 101, 114, 115, 32, 116, 111, 32,
      98, 101, 103, 105, 110, 46>>

\* "ມາຝຶກກັນ! Repeat after me: "
FallbackOpen ==
    <<3745, 3762, 3741, 3766, 3713, 3713, 3761, 3737, 33, 32, 82, 101, 112, 101, 97, 116,
      32, 97, 102, 116, 101, 114, 32, 109, 101, 58, 32>>

\* ". It means "
FallbackMeans ==
    <<46, 32, 73, 116, 32, 109, 101, 97, 110, 115, 32>>

\* "this is our target phrase today"
DefaultFallbackGloss ==
    <<116, 104, 105, 115, 32, 105, 115, 32, 111, 117, 114, 32, 116, 97, 114, 103, 101,
      116, 32, 112, 104, 114, 97, 115, 101, 32, 116, 111, 100, 97, 121>>

\* ". Focus on the tone contour and say it once more."
FallbackClose ==
    <<46, 32, 70, 111, 99, 117, 115, 32, 111, 110, 32, 116, 104, 101, 32, 116, 111, 110,
      101, 32, 99, 111, 110, 116, 111, 117, 114, 32, 97, 110, 100, 32, 115, 97, 121, 32,
      105, 116, 32, 111, 110, 99, 101, 32, 109, 111, 114, 101, 46>>

\* "Keep the tone level. You are doing well."
TailKeepGoing ==
    <<75, 101, 101, 112, 32, 116, 104, 101, 32, 116, 111, 110, 101, 32, 108, 101, 118,
      101, 108, 46, 32, 89, 111, 117, 32, 97, 114, 101, 32, 100, 111, 105, 110, 103, 32,
      119, 101, 108, 108, 46>>

\* "ດີຫຼາຍ means very good."
TailWithLao ==
    <<3732, 3765, 3755, 3772, 3762, 3725, 32, 109, 101, 97, 110, 115, 32, 118, 101, 114,
      121, 32, 103, 111, 111, 100, 46>>

\* "hi"
MessageHi ==
    <<104, 105>>

----------------------------------------------------------------------------
(* services/llm.py: ConversationService *)

\* generate called without an observation
NoObservation == [observed |-> FALSE]

\* history[-8:]
HISTORY_KEPT == 8

ParagraphBreak == <<10, 10>>

\* f" ({romanised})" if romanised else ""
RomanisedNote(romanised) ==
    IF Truthy(romanised) THEN <<32, 40>> \o romanised \o <<41>> ELSE <<>>

\* The phrase bank is the one exported by the engine; the focus is the first
\* phrase of the task's bank, or of the first bank.
_select_focus_phrase(task_id) ==
    LET bank == IF task_id # NoTask /\ task_id \in TaskIds THEN get_phrase_bank(task_id)
                ELSE IF _load_phrase_bank # <<>> THEN _load_phrase_bank[1].phrases
                ELSE <<>>
    IN IF bank = <<>> THEN [phrase |-> None, translation |-> None]
       ELSE [phrase |-> bank[1].phrase, translation |-> bank[1].translation]

_romanise(text) == IF ~Truthy(text) THEN <<>> ELSE segment(text)

\* "speech recogniser" in hint.lower(): of the engine's hints only the
\* still-preparing one has these words.
MentionsSpeechRecogniser(hint) == hint.kind = "still_preparing"

_build_summary(observation, focus_phrase, focus_translation) ==
    LET observed == observation # NoObservation
        downloading ==
            IF observed /\ \E i \in 1..Len(observation.corrections) :
                              MentionsSpeechRecogniser(observation.corrections[i])
            THEN <<StillDownloadingText>> ELSE <<>>
        heard == observed /\ Truthy(observation.lao_text)
        heard_line ==
            IF ~heard THEN <<>>
            ELSE IF contains_lao_characters(observation.lao_text)
            THEN << HeardOpen \o observation.lao_text \o <<34>>
                    \o RomanisedNote(Or(observation.romanised,
                                        _romanise(observation.lao_text)))
                    \o HeardMeans
                    \o Or(observation.translation, DefaultObservedTranslation)
                    \o QuoteStop >>
            ELSE << HeardOpen \o observation.lao_text \o HeardEnglishClose >>
        refocus == heard /\ ~Truthy(focus_phrase)
        focus_phrase1 ==
            IF refocus THEN Or(observation.focus_phrase, observation.lao_text)
            ELSE focus_phrase
        focus_translation1 ==
            IF refocus
            THEN Or(observation.focus_translation,
                    Or(observation.translation, focus_translation))
            ELSE focus_translation
        practise ==
            IF ~Truthy(focus_phrase1) THEN <<>>
            ELSE LET given == IF observed THEN observation.focus_romanised ELSE None
                     focus_romanised == IF Truthy(given) THEN given
                                        ELSE _romanise(focus_phrase1)
                 IN << PractiseOpen \o focus_phrase1 \o <<34>>
                       \o RomanisedNote(focus_romanised) \o PractiseDash
                       \o Or(focus_translation1, DefaultGloss) \o QuoteStop >>
    IN JoinSpace(downloading \o heard_line \o practise \o <<RepeatAloudText>>)

\* str.rstrip()
RStrip(text) ==
    LET idx == {i \in 1..Len(text) : ~IsSpace(text[i])}
    IN IF idx = {} THEN <<>>
       ELSE SubSeq(text, 1, CHOOSE i \in idx : \A j \in idx : i >= j)

\* The end of the match of [Lao]+(?:[Lao\s]+)? that starts at i, within a line.
RECURSIVE LaoLineRunEnd(_, _)
LaoLineRunEnd(text, i) ==
    IF i < Len(text) /\ (IsLaoChar(text[i + 1]) \/ (IsSpace(text[i + 1]) /\ text[i + 1] # 10))
    THEN LaoLineRunEnd(text, i + 1)
    ELSE i

\* The first match of the pattern in the first stripped line that has one:
\* it starts at the first Lao character of the text and runs over Lao
\* characters and spaces; the spaces that end a line were stripped.
_extract_lao_line(text) ==
    LET lao == {i \in 1..Len(text) : IsLaoChar(text[i])}
    IN IF lao = {} THEN None
       ELSE LET lo == CHOOSE i \in lao : \A j \in lao : i <= j
                hi == LaoLineRunEnd(text, lo)
                run == SubSeq(text, lo, hi)
            IN IF hi = Len(text) \/ text[hi + 1] = 10 THEN RStrip(run) ELSE run

_fallback_reply(user_message, focus_phrase, focus_translation) ==
    IF ~Truthy(focus_phrase)
    THEN [reply |-> FallbackNoVocabularyText, spoken |-> None]
    ELSE [reply |-> FallbackOpen \o focus_phrase \o FallbackMeans
                    \o Or(focus_translation, DefaultFallbackGloss) \o FallbackClose,
          spoken |-> focus_phrase]

\* The optional text-generation backend as one call sees it: not loaded,
\* loaded and raising, or loaded and answering llm_tail, the generated
\* continuation after _clean_generated_text.
Backend(loaded, raises, llm_tail) ==
    [loaded |-> loaded, raises |-> raises, llm_tail |-> llm_tail]

\* The focus of the turn (lines 237-250).
ResolveFocus(task_id, observation) ==
    LET selected == _select_focus_phrase(task_id)
        observed == observation # NoObservation
    IN IF observed /\ Truthy(observation.focus_phrase)
       THEN [phrase |-> observation.focus_phrase,
             translation |-> IF Truthy(observation.focus_translation)
                             THEN observation.focus_translation
                             ELSE IF Truthy(observation.translation)
                             THEN observation.translation
                             ELSE selected.translation]
       ELSE IF observed /\ Truthy(observation.lao_text)
               /\ contains_lao_characters(observation.lao_text)
       THEN [phrase |-> observation.lao_text,
             translation |-> IF Truthy(observation.translation)
                             THEN observation.translation
                             ELSE selected.translation]
       ELSE selected

\* The one-time introduction (lines 263-277).
Introduction(history, observation, focus_phrase, focus_translation) ==
    IF history # <<>> THEN <<>>
    ELSE LET observed == observation # NoObservation
             intro_focus ==
                 Or(focus_phrase, IF observed THEN observation.focus_phrase ELSE None)
             intro_translation ==
                 Or(focus_translation,
                    IF observed THEN observation.focus_translation ELSE None)
         IN Strip(GreetingText \o
                  (IF Truthy(intro_focus)
                   THEN FirstFocusOpen \o intro_focus \o FirstFocusMid
                        \o _romanise(intro_focus) \o FirstFocusClose
                        \o Or(intro_translation, DefaultIntroTranslation)
                   ELSE <<>>))

\* A service that speaks the English closing sentence of the summary.
SpokenEnglishFiller(spoken_text, reply, focus_phrase) == RepeatAloudText

\* Lines 321-326: the text to speak, once the reply is known.
SpokenText(spoken_text, reply, focus_phrase) ==
    LET from_reply == IF ~Truthy(spoken_text) THEN _extract_lao_line(reply) ELSE spoken_text
        from_focus ==
            IF ~Truthy(from_reply)
            THEN Or(extract_first_lao_segment(Or(focus_phrase, <<>>)), Or(focus_phrase, None))
            ELSE from_reply
    IN IF Truthy(from_focus) /\ ~contains_lao_characters(from_focus)
          /\ Truthy(focus_phrase) /\ contains_lao_characters(focus_phrase)
       THEN focus_phrase
       ELSE from_focus

\* history[-8:].copy() and the two turns appended
UpdatedHistory(history, user_message, reply) ==
    LET kept == IF Len(history) <= HISTORY_KEPT THEN history
                ELSE SubSeq(history, Len(history) - HISTORY_KEPT + 1, Len(history))
    IN kept \o << [role |-> "user", content |-> user_message],
                  [role |-> "assistant", content |-> reply] >>

\* A continuation that falls back without recording why.
ContinuationLosingReason(backend, summary, reply0, fallback) ==
    [reply |-> summary \o ParagraphBreak \o fallback.reply,
     spoken_text |-> Or(fallback.spoken, None),
     debug |-> [backend |-> "fallback"]]

\* Lines 280-319: the reply before the backend is tried (reply0), and what
\* each continuation path makes of it.
Continuation(backend, summary, reply0, fallback) ==
    IF backend.loaded /\ ~backend.raises
    THEN LET reply == IF Truthy(backend.llm_tail)
                      THEN summary \o ParagraphBreak \o backend.llm_tail
                      ELSE reply0
         IN [reply |-> reply, spoken_text |-> _extract_lao_line(reply),
             debug |-> [backend |-> "transformers", model |-> "llm_model_name"]]
    ELSE IF backend.loaded
    THEN [reply |-> summary \o ParagraphBreak \o fallback.reply,
          spoken_text |-> Or(fallback.spoken, None),
          debug |-> [backend |-> "fallback", reason |-> "str(exc)"]]
    ELSE [reply |-> IF Truthy(fallback.reply)
                    THEN summary \o ParagraphBreak \o fallback.reply
                    ELSE summary,
          spoken_text |-> fallback.spoken,
          debug |-> [backend |-> "fallback"]]

\* Lines 321-348: the spoken text, the history and the result.
ConversationResult(history, user_message, focus, out) ==
    [raised |-> FALSE,
     reply_text |-> out.reply,
     history |-> UpdatedHistory(history, user_message, out.reply),
     focus_phrase |-> focus.phrase,
     focus_translation |-> focus.translation,
     spoken_text |-> SpokenText(out.spoken_text, out.reply, focus.phrase),
     debug |-> out.debug]

\* Lines 278-319 with the summary and the introduction built.
Composed(history, user_message, backend, focus, summary, introduction) ==
    ConversationResult(history, user_message, focus,
        Continuation(backend, summary,
                     IF introduction = <<>> THEN summary
                     ELSE introduction \o ParagraphBreak \o summary,
                     _fallback_reply(user_message, focus.phrase, focus.translation)))

\* Lines 252-277 with the focus of the turn resolved.
Focused(history, user_message, observation, backend, focus) ==
    Composed(history, user_message, backend, focus,
             _build_summary(observation, focus.phrase, focus.translation),
             Introduction(history, observation, focus.phrase, focus.translation))

\* generate(history, user_message, task_id, observation) with the backend
\* answering as given.
generate(history, user_message, task_id, observation, backend) ==
    IF Strip(user_message) = <<>>
    THEN [raised |-> TRUE]
    ELSE Focused(history, user_message, observation, backend,
                 ResolveFocus(task_id, observation))

\* The calls of generate the model makes.
MaxHistory == 7

\* A client's history of n turns, each with its own content ("1", "2", ...).
ClientHistory(n) ==
    [i \in 1..n |-> [role |-> IF i % 2 = 1 THEN "user" ELSE "assistant",
                     content |-> <<48 + i>>]]

\* "" and "  "
BlankMessages == {<<>>, <<32, 32>>}

\* The lengths of the histories a client sends: none, one turn, and the
\* longest two.
HistoryLengths == {0, 1, MaxHistory - 1, MaxHistory}

\* No task, a task of the bank and a task the bank does not have.
ConversationTasks == {NoTask, "numbers_0_10", "colours"}

\* What process_audio returns on a fresh engine for a few utterances, and no
\* observation at all.
Observations ==
    {NoObservation, AsrUnavailableFeedback} \cup
    {process_audio(EngineState("day1_greetings", FALSE, ("day1_greetings" :> 0), <<>>),
                   TRUE, FALSE, NoTask, TRUE, t, NoTranslation).feedback :
       t \in {get_phrase_bank("day1_greetings")[1].phrase, LaoOutsideBank,
              <<72, 101, 108, 108, 111>>}}

LlmBackends ==
    {Backend(FALSE, FALSE, <<>>), Backend(TRUE, TRUE, <<>>)} \cup
    {Backend(TRUE, FALSE, t) : t \in {<<>>, TailKeepGoing, TailWithLao}}

\* Every call with the message "hi", and the blank messages on a first turn.
GenerateCalls ==
    [history : {ClientHistory(n) : n \in HistoryLengths},
     user_message : {MessageHi},
     task_id : ConversationTasks,
     observation : Observations,
     backend : LlmBackends]
    \cup
    [history : {ClientHistory(0)},
     user_message : BlankMessages,
     task_id : {NoTask},
     observation : {NoObservation},
     backend : {Backend(FALSE, FALSE, <<>>), Backend(TRUE, FALSE, TailKeepGoing)}]

GenerateTable ==
    [c \in GenerateCalls |->
        generate(c.history, c.user_message, c.task_id, c.observation, c.backend)] @@ <<>>

----------------------------------------------------------------------------
(* main.py and models/schemas.py: the HTTP layer *)

\* not text.strip()
IsBlank(text) == \A i \in 1..Len(text) : IsSpace(text[i])

\* The one element of a set of one element.
The(S) == CHOOSE x \in S : TRUE

\* The sentence of the still-preparing hint (tutor.py:258-259).
StillPreparingText ==
    <<3749, 3760, 3738, 3771, 3738, 3713, 3763, 3749, 3761, 3719, 3733, 3773, 3745, 3713,
      3762, 3737, 3758, 3761, 3738, 3743, 3761, 3719, 32, 8211, 32, 84, 104, 101, 32,
      115, 112, 101, 101, 99, 104, 32, 114, 101, 99, 111, 103, 110, 105, 115, 101, 114,
      32, 105, 115, 32, 115, 116, 105, 108, 108, 32, 112, 114, 101, 112, 97, 114, 105,
      110, 103, 46, 32, 73, 110, 115, 116, 97, 108, 108, 32, 116, 104, 101, 32, 115, 112,
      101, 101, 99, 104, 32, 101, 120, 116, 114, 97, 115, 32, 119, 105, 116, 104, 32, 96,
      117, 118, 32, 112, 105, 112, 32, 105, 110, 115, 116, 97, 108, 108, 32, 39, 46, 91,
      115, 112, 101, 101, 99, 104, 93, 39, 96, 32, 97, 110, 100, 32, 119, 97, 105, 116,
      32, 102, 111, 114, 32, 116, 104, 101, 32, 87, 104, 105, 115, 112, 101, 114, 32,
      109, 111, 100, 101, 108, 32, 100, 111, 119, 110, 108, 111, 97, 100, 32, 116, 111,
      32, 102, 105, 110, 105, 115, 104, 46>>

\* The sentence of the no-speech hint (tutor.py:287).
DidntCatchText ==
    <<3749, 3757, 3719, 3776, 3751, 3771, 3785, 3762, 3757, 3765, 3713, 3716, 3761, 3785,
      3719, 32, 8211, 32, 73, 32, 100, 105, 100, 110, 39, 116, 32, 99, 97, 116, 99, 104,
      32, 97, 110, 121, 116, 104, 105, 110, 103, 46>>

\* The sentence of the empty-transcript hint (tutor.py:341).
TryRepeatingText ==
    <<3714, 3789, 3779, 3755, 3785, 3776, 3751, 3771, 3785, 3762, 3757, 3765, 3713, 3716,
      3761, 3785, 3719, 32, 8211, 32, 84, 114, 121, 32, 114, 101, 112, 101, 97, 116, 105,
      110, 103, 32, 116, 104, 101, 32, 116, 97, 114, 103, 101, 116, 32, 112, 104, 114,
      97, 115, 101, 46>>

\* "I could not speak clearly."
CouldNotSpeakText ==
    <<73, 32, 99, 111, 117, 108, 100, 32, 110, 111, 116, 32, 115, 112, 101, 97, 107, 32,
      99, 108, 101, 97, 114, 108, 121, 46>>

\* The string a correction is in the feedback; the three hints that can be
\* the first correction of a feedback without a transcript are written out.
CorrectionText(hint) ==
    IF hint.kind = "still_preparing" THEN StillPreparingText
    ELSE IF hint.kind = "didnt_catch" THEN DidntCatchText
    ELSE TryRepeatingText

\* VadService.backend_name
VadBackends == {"webrtc", "silero", "energy"}

\* The requests of the model: no message, a blank one and "hi"; no history
\* and one earlier turn.
RequestMessages == {None, <<32, 32>>, MessageHi}

RequestHistories == {ClientHistory(0), ClientHistory(1)}

RequestTasks == {NoTask, "numbers_0_10"}

\* What the recogniser hears in the audio of a conversation turn.
RequestTranscripts ==
    {<<>>, get_phrase_bank("day1_greetings")[1].phrase, LaoOutsideBank, AsrRaises}

RequestBackends ==
    {Backend(FALSE, FALSE, <<>>), Backend(TRUE, TRUE, <<>>), Backend(TRUE, FALSE, TailKeepGoing)}

\* The messages handle_conversation passes to generate for these requests.
RequestUserMessages ==
    {MessageHi, CouldNotSpeakText, StillPreparingText, DidntCatchText, TryRepeatingText}
    \cup (RequestTranscripts \ {<<>>, AsrRaises})

\* conversation_service.generate(history_payload, message_text, payload.task_id)
\* for the requests of the model.
RequestGenerateTable ==
    [c \in [history : RequestHistories, user_message : RequestUserMessages,
            task_id : RequestTasks, backend : RequestBackends] |->
        generate(c.history, c.user_message, c.task_id, NoObservation, c.backend)] @@ <<>>

\* utterance_feedback of a turn without audio: null
NullFeedback == [is_null |-> TRUE]

\* What audio_base64 may hold: nothing (null or ""), text that is not
\* base64, base64 of no bytes, of an odd number of bytes, and of 16-bit
\* samples.
AudioPayloads == {"absent", "invalid_base64", "no_samples", "odd_length", "pcm"}

HasAudio(audio) == audio # "absent"

\* A validator that asks for a message whether or not audio is sent.
check_message_only(message, audio) == ~Truthy(message) \/ Strip(message) = <<>>

\* ConversationRequest.check_message_or_audio: TRUE when the request is
\* rejected.
check_message_or_audio(message, audio) ==
    (~Truthy(message) \/ Strip(message) = <<>>) /\ ~HasAudio(audio)

\* A response of the HTTP layer that is an error.
HttpError(status_code, detail) == [status_code |-> status_code, detail |-> detail]

\* _decode_audio: the error it ends with, or "decoded". np.frombuffer with
\* dtype float32 raises ValueError on a buffer of odd length, which no handler
\* catches.
_decode_audio(audio) ==
    IF audio = "invalid_base64" THEN HttpError(400, "Invalid base64 audio")
    ELSE IF audio = "odd_length" THEN HttpError(500, "ValueError")
    ELSE IF audio = "no_samples" THEN HttpError(400, "Empty audio payload")
    ELSE [status_code |-> 200, detail |-> "decoded"]

\* TutorEngine.prepare_teacher_audio(text_override=text): the text that is
\* synthesised, None when there is none or the TTS model is not loaded.
prepare_teacher_audio(text, cur, tts_is_ready) ==
    LET bank == get_phrase_bank(cur)
        stripped == Strip(text)
        spoken == IF stripped # <<>> THEN stripped
                  ELSE IF bank = <<>> THEN <<>> ELSE Strip(bank[1].phrase)
    IN IF spoken = <<>> \/ ~tts_is_ready THEN None ELSE spoken

\* Lines 923-928: the teacher audio for the result of generate.
TeacherAudio(result, cur, tts_is_ready) ==
    IF Truthy(result.spoken_text)
    THEN prepare_teacher_audio(result.spoken_text, cur, tts_is_ready)
    ELSE IF Truthy(result.focus_phrase)
    THEN prepare_teacher_audio(result.focus_phrase, cur, tts_is_ready)
    ELSE None

\* Lines 943-954: the diagnostics of the response.
DebugPayload(debug, audio, asr_is_ready) ==
    IF HasAudio(audio)
    THEN [audio_processed |-> TRUE, asr_ready |-> asr_is_ready] @@ debug
    ELSE [audio_processed |-> FALSE] @@ debug

\* Lines 917-968 for the result of generate.
ConversationResponse(result, cur, audio, heard_text, utterance_feedback, asr_is_ready, tts_is_ready) ==
    IF result.raised THEN HttpError(400, "Message must not be empty")
    ELSE [status_code |-> 200,
          reply |-> [role |-> "assistant", content |-> result.reply_text],
          history |-> result.history,
          heard_text |-> heard_text,
          focus_phrase |-> result.focus_phrase,
          focus_translation |-> result.focus_translation,
          spoken_text |-> result.spoken_text,
          utterance_feedback |-> utterance_feedback,
          teacher_audio |-> TeacherAudio(result, cur, tts_is_ready),
          debug |-> DebugPayload(result.debug, audio, asr_is_ready)]

\* Lines 914-918: the message generate is called with, and the call; no
\* observation is passed.
Replied(history, message_text, task_id, backend, cur, audio, heard_text, utterance_feedback, asr_is_ready, tts_is_ready) ==
    The({ConversationResponse(result, cur, audio, heard_text, utterance_feedback,
                              asr_is_ready, tts_is_ready) :
           result \in {RequestGenerateTable[
                          [history |-> history,
                           user_message |-> IF IsBlank(message_text)
                                            THEN CouldNotSpeakText ELSE message_text,
                           task_id |-> task_id, backend |-> backend]]}})

\* Lines 909-912: the message taken from the feedback when the request has
\* none.
MessageFromFeedback(message_text, fb) ==
    IF message_text # <<>> THEN message_text
    ELSE IF Truthy(fb.lao_text) THEN fb.lao_text
    ELSE IF Truthy(fb.romanised) THEN fb.romanised
    ELSE IF fb.corrections # <<>> THEN CorrectionText(fb.corrections[1])
    ELSE <<>>

\* What handle_conversation hands back to the model: the engine state after
\* the call, the reviews it logged and the response.
Handled(state, logged, response) ==
    [state |-> state, logged |-> logged, response |-> response]

\* Lines 907-918 for the result r of process_audio.
Heard(r, history, message_text, task_id, backend, asr_is_ready, tts_is_ready) ==
    IF r.raised THEN Handled(r.state, r.logged, HttpError(500, "transcribe"))
    ELSE The({Handled(r.state, r.logged,
                      Replied(history, m, task_id, backend, r.state.current_task, "pcm",
                              Or(r.feedback.lao_text, None), r.feedback, asr_is_ready,
                              tts_is_ready)) :
                m \in {MessageFromFeedback(message_text, r.feedback)}})

\* Lines 894-918 for a request the validator accepted.
Accepted(st, message_text, audio, decoded, history, task_id, backend, asr_is_ready, translator_is_ready, tts_is_ready, has_speech, asr_text, tr) ==
    IF ~HasAudio(audio)
    THEN Handled(st, <<>>, Replied(history, message_text, task_id, backend,
                                   st.current_task, audio, None, NullFeedback, asr_is_ready,
                                   tts_is_ready))
    ELSE IF decoded.status_code # 200 THEN Handled(st, <<>>, decoded)
    ELSE The({Heard(r, history, message_text, task_id, backend, asr_is_ready,
                    tts_is_ready) :
                r \in {process_audio(st, asr_is_ready, translator_is_ready, task_id,
                                     has_speech, asr_text, tr)}})

\* POST /api/v1/conversation: the validation of the request, then
\* handle_conversation.
handle_conversation(st, message, audio, history, task_id, backend, asr_is_ready, translator_is_ready, tts_is_ready, has_speech, asr_text, tr) ==
    IF check_message_or_audio(message, audio)
    THEN Handled(st, <<>>, HttpError(422, "Either 'message' or 'audio_base64' must be provided"))
    ELSE Accepted(st, IF Truthy(message) THEN Strip(message) ELSE <<>>, audio,
                  _decode_audio(audio), history, task_id, backend, asr_is_ready,
                  translator_is_ready, tts_is_ready, has_speech, asr_text, tr)

\* The fields HealthResponse requires (schemas.py:55-61): none has a default.
HealthResponseFields ==
    {"status", "whisper_loaded", "vad_backend", "tts_available", "llm_available",
     "translation_available"}

\* HealthResponse(**fields): pydantic raises a validation error when a
\* required field is missing, and the request ends as a server error.
HealthResponse(fields) ==
    IF HealthResponseFields \subseteq DOMAIN fields
    THEN [status_code |-> 200, body |-> fields]
    ELSE [status_code |-> 500,
          missing |-> HealthResponseFields \ DOMAIN fields]

\* GET /health
healthcheck(asr_is_ready, vad_backend, tts_is_ready, llm_is_ready) ==
    HealthResponse([status |-> "ok", whisper_loaded |-> asr_is_ready,
                    vad_backend |-> vad_backend, tts_available |-> tts_is_ready,
                    llm_available |-> llm_is_ready])

----------------------------------------------------------------------------
(* State *)

\* No process_audio call is running.
NoRequests == [running |-> FALSE]

VARIABLES
    current_task,            \* TutorState.current_task
    turn_count,              \* TutorState.turn_count
    last_focus_phrase,       \* TutorState.last_focus_phrase
    last_focus_translation,  \* TutorState.last_focus_translation
    awaiting_repeat,         \* TutorState.awaiting_repeat
    focus_indices,           \* TutorEngine._focus_indices
    romanised_cache,         \* TutorEngine._romanised_cache
    reviews,                 \* rows of the reviews table written by SrsRepository.log_review
    asr_ready,               \* AsrService.is_ready
    translator_ready,        \* TranslationService.is_ready
    in_flight,               \* the process_audio calls running in the worker threads
    last                     \* the last call made and what it returned

vars == <<current_task, turn_count, last_focus_phrase, last_focus_translation,
          awaiting_repeat, focus_indices, romanised_cache, reviews, asr_ready,
          translator_ready, in_flight, last>>

env == <<asr_ready, translator_ready>>

TutorState_vars == <<current_task, turn_count, last_focus_phrase, last_focus_translation,
                     awaiting_repeat>>

TutorState ==
    /\ current_task = "day1_greetings"
    /\ turn_count = 0
    /\ last_focus_phrase = None
    /\ last_focus_translation = None
    /\ awaiting_repeat = FALSE

Init ==
    /\ TutorState
    /\ focus_indices = ("day1_greetings" :> 0)
    /\ romanised_cache = <<>>
    /\ reviews = <<>>
    /\ asr_ready \in BOOLEAN
    /\ translator_ready \in BOOLEAN
    /\ in_flight = NoRequests
    /\ last = [op |-> "init"]

----------------------------------------------------------------------------
(* Operations of the engine *)

\* process_audio(audio, sample_rate, task_id) on an audio buffer for which VAD
\* answers has_speech, ASR answers asr_text and the translator answers tr.
Turn(task_id, has_speech, asr_text, tr) ==
    \E r \in {process_audio(EngineState(current_task, awaiting_repeat, focus_indices,
                                       romanised_cache),
                           asr_ready, translator_ready, task_id, has_speech,
                           asr_text, tr)} :
      /\ current_task' = r.state.current_task
      /\ awaiting_repeat' = r.state.awaiting_repeat
      /\ focus_indices' = r.state.indices
      /\ romanised_cache' = r.state.cache
      /\ reviews' = reviews \o r.logged
      /\ last' = [op |-> "process_audio", task_id |-> task_id,
                  raised |-> r.raised, feedback |-> r.feedback,
                  success |-> r.success, logged |-> r.logged, calls |-> r.calls]
      /\ UNCHANGED <<turn_count, last_focus_phrase, last_focus_translation, env, in_flight>>

ProcessAudio ==
    \E task_id \in TaskInputs, has_speech \in BOOLEAN,
       asr_text \in Transcripts \cup {AsrRaises} :
      \E tr \in IF asr_text = AsrRaises THEN {NoTranslation}
                 ELSE TranslatorAnswers(translator_ready, asr_text) :
        /\ (~has_speech => asr_text = <<>>)
        /\ Turn(task_id, has_speech, asr_text, tr)

\* What a client passes to mark_focus_prompted: nothing, or the focus of the
\* current task, which it has just presented.
PromptedFocus(indices, cur) ==
    LET bank == get_phrase_bank(cur)
    IN {[phrase |-> None, translation |-> None]} \cup
       (IF bank = <<>> THEN {}
        ELSE {bank[Min(IndexOf(indices, cur), Len(bank) - 1) + 1]})

\* mark_focus_prompted(phrase, translation)
MarkFocusPrompted ==
    \E focus \in PromptedFocus(focus_indices, current_task) :
      /\ IF ~Truthy(focus.phrase)
         THEN UNCHANGED <<last_focus_phrase, last_focus_translation, awaiting_repeat>>
         ELSE /\ last_focus_phrase' = focus.phrase
              /\ last_focus_translation' = focus.translation
              /\ awaiting_repeat' = TRUE
      /\ last' = [op |-> "mark_focus_prompted", phrase |-> focus.phrase]
      /\ UNCHANGED <<current_task, turn_count, focus_indices, romanised_cache, reviews, env, in_flight>>

Next == ProcessAudio \/ MarkFocusPrompted

Spec == Init /\ [][Next]_vars

\* The task a learner keeps practising.
PractisedTask == "numbers_0_10"

\* What is heard in a practice session: the phrases of the task, and "xyz".
PractiseTranscripts ==
    LeadingPhrases(get_phrase_bank(PractisedTask), Len(get_phrase_bank(PractisedTask)))
    \cup {<<120, 121, 122>>}

\* A turn of a practice session: the request names the practised task or no
\* task, and speech is heard.
PractiseAudio ==
    \E task_id \in {NoTask, PractisedTask}, asr_text \in PractiseTranscripts :
      \E tr \in TranslatorAnswers(translator_ready, asr_text) :
        Turn(task_id, TRUE, asr_text, tr)

NextPractice == PractiseAudio \/ MarkFocusPrompted

\* A practice session that goes on: handle_utterance runs process_audio to
\* its end for every request (main.py:848-860), so turns keep being taken.
SpecPractice == Init /\ [][NextPractice]_vars /\ WF_vars(PractiseAudio)

\* ConversationService.generate, called by a client with its own history.
Generate ==
    \E c \in DOMAIN GenerateTable :
        /\ last' = [op |-> "generate", call |-> c, result |-> GenerateTable[c]]
        /\ UNCHANGED <<TutorState_vars, focus_indices, romanised_cache, reviews, env, in_flight>>

NextConv == Generate

SpecConv == Init /\ [][NextConv]_vars

\* POST /api/v1/conversation
HandleConversation ==
    \E message \in RequestMessages, audio \in AudioPayloads, history \in RequestHistories,
       task_id \in RequestTasks, backend \in RequestBackends, tts_is_ready \in BOOLEAN,
       has_speech \in BOOLEAN, asr_text \in RequestTranscripts :
      \E tr \in IF asr_text = AsrRaises THEN {NoTranslation}
                 ELSE TranslatorAnswers(translator_ready, asr_text) :
        /\ (~has_speech => asr_text = <<>>)
        /\ (audio # "pcm" => ~has_speech)
        /\ \E h \in {handle_conversation(EngineState(current_task, awaiting_repeat,
                                                     focus_indices, romanised_cache),
                                         message, audio, history, task_id, backend,
                                         asr_ready, translator_ready, tts_is_ready,
                                         has_speech, asr_text, tr)} :
             /\ current_task' = h.state.current_task
             /\ awaiting_repeat' = h.state.awaiting_repeat
             /\ focus_indices' = h.state.indices
             /\ romanised_cache' = h.state.cache
             /\ reviews' = reviews \o h.logged
             /\ last' = [op |-> "conversation", message |-> message, audio |-> audio,
                         history |-> history, has_speech |-> has_speech,
                         asr_text |-> asr_text, backend |-> backend,
                         response |-> h.response]
             /\ UNCHANGED <<turn_count, last_focus_phrase, last_focus_translation, env, in_flight>>

\* GET /health
Healthcheck ==
    \E vad_backend \in VadBackends, tts_is_ready \in BOOLEAN, llm_is_ready \in BOOLEAN :
        /\ last' = [op |-> "health",
                    response |-> healthcheck(asr_ready, vad_backend, tts_is_ready,
                                             llm_is_ready)]
        /\ UNCHANGED <<TutorState_vars, focus_indices, romanised_cache, reviews, env, in_flight>>

NextHttp == HandleConversation \/ Healthcheck

SpecHttp == Init /\ [][NextHttp]_vars

\* The phrase banks the translation matcher is called on: the seed bank, and
\* the banks of one task with up to MaxBankPhrases of these entries, in any
\* order.
MaxBankPhrases == 3

MatchEntries ==
    {\* "Thank you"
     [phrase |-> <<3714, 3757, 3738, 3779, 3720>>, translation |-> <<84, 104, 97, 110, 107, 32, 121, 111, 117>>],
     \* "Thank you very much"
     [phrase |-> <<3714, 3757, 3738, 3779, 3720, 3755, 3772, 3762, 3725, 3782>>, translation |-> <<84, 104, 97, 110, 107, 32, 121, 111, 117, 32, 118, 101, 114, 121, 32, 109, 117, 99, 104>>],
     \* "you"
     [phrase |-> <<3776, 3720, 3771, 3785, 3762>>, translation |-> <<121, 111, 117>>],
     \* "Hello"
     [phrase |-> <<3754, 3760, 3738, 3762, 3725, 3732, 3765>>, translation |-> <<72, 101, 108, 108, 111>>]}

MatchPhrases ==
    {ps \in UNION {[1..n -> MatchEntries] : n \in 1..MaxBankPhrases} :
       \A i, j \in DOMAIN ps : i # j => ps[i] # ps[j]}

MatchBanks ==
    {_load_phrase_bank} \cup {<<[task |-> "day1_greetings", phrases |-> ps]>> : ps \in MatchPhrases}

\* "Thank you", "thank you!", "you", "Hello", "xyz" and ""
MatchQueries ==
    {<<84, 104, 97, 110, 107, 32, 121, 111, 117>>,
     <<116, 104, 97, 110, 107, 32, 121, 111, 117, 33>>,
     <<121, 111, 117>>, <<72, 101, 108, 108, 111>>, <<120, 121, 122>>, <<>>}

\* TutorEngine._find_phrase_by_translation(text), called on an engine with
\* the given bank.
FindPhraseByTranslationCall ==
    \E bank \in MatchBanks, text \in MatchQueries :
        /\ last' = [op |-> "_find_phrase_by_translation", bank |-> bank, text |-> text,
                    result |-> FindPhraseByTranslationIn(bank, text)]
        /\ UNCHANGED <<TutorState_vars, focus_indices, romanised_cache, reviews, env, in_flight>>

NextMatch == FindPhraseByTranslationCall

SpecMatch == Init /\ [][NextMatch]_vars

----------------------------------------------------------------------------
(* main.py: two requests in the worker threads *)

\* handle_utterance and handle_conversation are plain "def" endpoints, which
\* the framework runs in the threads of a pool; tutor_engine is one object of
\* the module and process_audio takes no lock.  A thread can be suspended
\* between any two bytecodes; the model suspends it only where it surely can
\* be: in the blocking calls of VAD and ASR (lines 270-292), between the
\* lines 238-267 and the lines 293-502.  Every behaviour of the model is one
\* of the program.

ThreadTasks == {NoTask} \cup TaskIds

\* What the two learners say: the first greeting and the first two numbers.
ThreadTranscripts ==
    LeadingPhrases(get_phrase_bank("day1_greetings"), 1)
    \cup LeadingPhrases(get_phrase_bank("numbers_0_10"), 2)

\* A request as it arrives: the task it names, and what VAD, ASR and the
\* translator answer for its audio.
ThreadRequests ==
    UNION {{[pc |-> "arrived", task_id |-> task_id, asr_text |-> asr_text, tr |-> tr] :
              tr \in TranslatorAnswers(translator_ready, asr_text)} :
           task_id \in ThreadTasks, asr_text \in ThreadTranscripts}

\* The engine state the threads share.
SharedEngine == EngineState(current_task, awaiting_repeat, focus_indices, romanised_cache)

\* Two requests arrive while no call is running.
Arrive ==
    /\ ~in_flight.running
    /\ \E first \in ThreadRequests, second \in ThreadRequests :
         in_flight' = [running |-> TRUE, start |-> SharedEngine,
                       requests |-> <<first, second>>]
    /\ last' = [op |-> "arrive"]
    /\ UNCHANGED <<TutorState_vars, focus_indices, romanised_cache, reviews, env>>

\* Lines 238-267 in thread i: the task override, the test of the recogniser
\* and the expected focus.
Begin(i) ==
    /\ in_flight.running
    /\ in_flight.requests[i].pc = "arrived"
    /\ \E rq \in {in_flight.requests[i]} :
       \E cur \in {EffectiveTask(current_task, rq.task_id)} :
         /\ current_task' = cur
         /\ IF ~asr_ready
            THEN /\ in_flight' = [in_flight EXCEPT !.requests[i] =
                                    [pc |-> "returned", task_id |-> rq.task_id,
                                     asr_text |-> rq.asr_text, tr |-> rq.tr,
                                     feedback |-> AsrUnavailableFeedback,
                                     success |-> FALSE]]
                 /\ UNCHANGED focus_indices
            ELSE \E cf \in {_current_focus(focus_indices, cur, rq.task_id)} :
                   /\ focus_indices' = cf.indices
                   /\ in_flight' = [in_flight EXCEPT !.requests[i] =
                                      [pc |-> "listening", task_id |-> rq.task_id,
                                       asr_text |-> rq.asr_text, tr |-> rq.tr,
                                       expected_phrase |-> cf.phrase,
                                       expected_translation |-> cf.translation]]
    /\ last' = [op |-> "begin", thread |-> i]
    /\ UNCHANGED <<turn_count, last_focus_phrase, last_focus_translation, awaiting_repeat,
                   romanised_cache, reviews, env>>

\* Lines 293-502 in thread i, with the expected focus it read before the
\* recogniser was called and the engine state as it is now.
Complete(i) ==
    /\ in_flight.running
    /\ in_flight.requests[i].pc = "listening"
    /\ \E rq \in {in_flight.requests[i]} :
       \E r \in {Expecting(SharedEngine, current_task, translator_ready, rq.task_id, TRUE,
                            rq.asr_text, rq.tr,
                            [phrase |-> rq.expected_phrase,
                             translation |-> rq.expected_translation,
                             indices |-> focus_indices])} :
         /\ current_task' = r.state.current_task
         /\ awaiting_repeat' = r.state.awaiting_repeat
         /\ focus_indices' = r.state.indices
         /\ romanised_cache' = r.state.cache
         /\ reviews' = reviews \o r.logged
         /\ in_flight' = [in_flight EXCEPT !.requests[i] =
                            [pc |-> "returned", task_id |-> rq.task_id,
                             asr_text |-> rq.asr_text, tr |-> rq.tr,
                             feedback |-> r.feedback, success |-> r.success]]
    /\ last' = [op |-> "complete", thread |-> i]
    /\ UNCHANGED <<turn_count, last_focus_phrase, last_focus_translation, env>>

\* Both responses are sent.
Respond ==
    /\ in_flight.running
    /\ \A i \in 1..2 : in_flight.requests[i].pc = "returned"
    /\ in_flight' = NoRequests
    /\ last' = [op |-> "respond"]
    /\ UNCHANGED <<TutorState_vars, focus_indices, romanised_cache, reviews, env>>

NextThreads ==
    \/ Arrive
    \/ \E i \in 1..2 : Begin(i)
    \/ \E i \in 1..2 : Complete(i)
    \/ Respond

SpecThreads == Init /\ [][NextThreads]_vars

----------------------------------------------------------------------------
(* Properties of the conversation service *)

\* C1: every call of generate with a non-blank message returns a non-empty
\* reply_text and a history that is the input history followed by the new user
\* turn and the new assistant turn, cut to its last 8 entries: its length is
\* the input length plus 2, capped at 8.
C1_HistoryGrowsByTwoCappedAtEight ==
    last.op = "generate" /\ Strip(last.call.user_message) # <<>>
    => /\ ~last.result.raised
       /\ last.result.reply_text # <<>>
       /\ LET grown == last.call.history \o
                         << [role |-> "user", content |-> last.call.user_message],
                            [role |-> "assistant", content |-> last.result.reply_text] >>
              kept == Min(Len(grown), 8)
          IN /\ Len(last.result.history) = kept
             /\ last.result.history = SubSeq(grown, Len(grown) - kept + 1, Len(grown))

----------------------------------------------------------------------------
(* Properties of the engine *)

\* The last call was a process_audio that returned feedback.
Returned(l) == l.op = "process_audio" /\ ~l.raised

\* The focus index of every task a caller can name.
FocusIndexOf(indices) == [t \in TaskInputs \ {NoTask} |-> IndexOf(indices, t)]

\* "sabaidee", as heard from a learner repeating the first greeting
HeardSabaidee == <<115, 97, 98, 97, 105, 100, 101, 101>>

\* C2: after every process_audio call that returns feedback presenting a focus
\* phrase, awaiting_repeat is true and last_focus_phrase / last_focus_translation
\* are the presented phrase and its gloss.
C2_PresentedFocusIsMarkedPrompted ==
    Returned(last) /\ last.feedback.focus_phrase # None
    => /\ awaiting_repeat
       /\ last_focus_phrase = last.feedback.focus_phrase
       /\ last_focus_translation = last.feedback.focus_translation

\* C3: from task day1_greetings at its first phrase with awaiting_repeat true,
\* process_audio on the transcript "sabaidee" is a success: praise is not null,
\* the focus index of the task goes from 0 to 1 and the returned focus is the
\* second phrase of the task with its gloss.
C3_SabaideeRepeatSucceeds ==
    [][ ( /\ current_task = "day1_greetings"
          /\ IndexOf(focus_indices, "day1_greetings") = 0
          /\ awaiting_repeat
          /\ Returned(last')
          /\ last'.calls.asr
          /\ last'.feedback.lao_text = HeardSabaidee
          /\ current_task' = "day1_greetings" )
        => /\ last'.success
           /\ last'.feedback.praise # NoPraise
           /\ IndexOf(focus_indices', "day1_greetings") = 1
           /\ last'.feedback.focus_phrase = get_phrase_bank("day1_greetings")[2].phrase
           /\ last'.feedback.focus_translation
                = get_phrase_bank("day1_greetings")[2].translation ]_vars

\* C4: one process_audio call raises the focus index of its task by 0 or by 1:
\* by exactly 1 on a success whose expected phrase was not the last of the task,
\* and by 0 on every turn that is not a success.
C4_FocusIndexStepsByOne ==
    [][ last'.op = "process_audio"
        => LET before == IndexOf(focus_indices, current_task')
               after == IndexOf(focus_indices', current_task')
               total == Len(get_phrase_bank(current_task'))
           IN /\ after - before \in {0, 1}
              /\ last'.success /\ before + 1 < total => after = before + 1
              /\ ~last'.success => after = before ]_vars

C4_Witness ==
    /\ Returned(last)
    /\ last.success
    /\ current_task = "numbers_0_10"
    /\ IndexOf(focus_indices, "numbers_0_10") = 1

\* C5: the focus index of a task with N phrases stays within 0..N-1, and a
\* success on the last phrase of the task leaves it where it is.
C5_FocusIndexWithinBank ==
    [][ /\ \A t \in TaskIds :
             /\ IndexOf(focus_indices, t) \in 0..(Len(get_phrase_bank(t)) - 1)
             /\ IndexOf(focus_indices', t) \in 0..(Len(get_phrase_bank(t)) - 1)
        /\ ( /\ Returned(last')
             /\ last'.success
             /\ current_task' \in TaskIds
             /\ IndexOf(focus_indices, current_task')
                  = Len(get_phrase_bank(current_task')) - 1 )
           => IndexOf(focus_indices', current_task')
                = IndexOf(focus_indices, current_task') ]_vars

\* A success on the third and last number: only the transcript of that phrase
\* passes the match against it.
C5_Witness ==
    /\ Returned(last)
    /\ last.success
    /\ current_task = "numbers_0_10"
    /\ last.feedback.lao_text = get_phrase_bank("numbers_0_10")[3].phrase
    /\ IndexOf(focus_indices, "numbers_0_10") = 2

\* C6: awaiting_repeat is never read as true by two match checks: the first
\* match check that reads it after a prompt leaves it false.
C6_AwaitingRepeatConsumedByFirstCheck ==
    Returned(last) /\ last.calls.awaiting_read => ~awaiting_repeat

\* C7: process_audio logs a review only on a turn it counts as a success.
C7_ReviewLoggedOnlyOnSuccess ==
    [][ last'.op = "process_audio" /\ (last'.logged # <<>> \/ reviews' # reviews)
        => last'.success ]_vars

\* A turn that is not a success although a gloss was resolved by the
\* translator, the branch in which log_review is written; nothing is logged.
C7_Witness ==
    /\ Returned(last)
    /\ ~last.success
    /\ last.calls.translator
    /\ last.feedback.lao_text = LaoOutsideBank
    /\ last.feedback.translation \in LoEnOutputs
    /\ last.logged = <<>>
    /\ reviews = <<>>

\* What every turn with speech and an empty transcript has in common: the
\* try-again correction comes first, praise is null, neither the matchers nor
\* the translator are consulted, and focus index and awaiting_repeat stay.
EmptyTranscriptTurn ==
    /\ Returned(last')
    /\ last'.calls.vad = "speech"
    /\ last'.calls.asr
    /\ last'.feedback.lao_text = <<>>

EmptyTranscriptLeavesNoTrace ==
    /\ last'.feedback.praise = NoPraise
    /\ ~last'.success
    /\ ~last'.calls.matchers
    /\ ~last'.calls.match_check
    /\ ~last'.calls.translator
    /\ FocusIndexOf(focus_indices') = FocusIndexOf(focus_indices)
    /\ awaiting_repeat' = awaiting_repeat

\* C8 as stated: when speech is detected and the transcript is empty, the turn
\* emits the try-again correction and stops: no matcher or translator is
\* consulted, no further correction hint is appended, praise is null, focus
\* index and awaiting_repeat are unchanged.
C8_EmptyTranscriptOnlyTryAgain ==
    [][ EmptyTranscriptTurn
        => /\ last'.feedback.corrections = <<PlainHint("try_repeating")>>
           /\ EmptyTranscriptLeavesNoTrace ]_vars

\* C8, amended: when speech is detected and the transcript is empty, the turn
\* emits the try-again correction first; the only further correction is the
\* hint that stays with the expected phrase, appended exactly when the task has
\* an expected phrase; praise is null, no matcher or translator is consulted,
\* focus index and awaiting_repeat are unchanged.
C8_EmptyTranscriptTryAgainThenStay ==
    [][ EmptyTranscriptTurn
        => LET cf == _current_focus(focus_indices, current_task', NoTask)
               expected_romanised == IF Truthy(cf.phrase) THEN segment(cf.phrase) ELSE <<>>
           IN /\ last'.feedback.corrections
                   = IF Truthy(cf.phrase)
                     THEN << PlainHint("try_repeating"),
                             Hint("lets_stay", cf.translation, cf.phrase,
                                  expected_romanised) >>
                     ELSE << PlainHint("try_repeating") >>
              /\ EmptyTranscriptLeavesNoTrace ]_vars

C8_Witness ==
    /\ Returned(last)
    /\ last.calls.vad = "speech"
    /\ last.calls.asr
    /\ last.feedback.lao_text = <<>>
    /\ Len(last.feedback.corrections) = 2
    /\ last.feedback.corrections[2].kind = "lets_stay"
    /\ awaiting_repeat

\* C9: when VAD reports no speech, process_audio returns without transcribing:
\* lao_text is empty, there is at least one correction hint, praise is null,
\* translator and matchers are not invoked, focus index and awaiting_repeat are
\* unchanged.
C9_NoSpeechReturnsHintOnly ==
    [][ last'.op = "process_audio" /\ last'.calls.vad = "no_speech"
        => /\ ~last'.raised
           /\ ~last'.calls.asr
           /\ last'.feedback.lao_text = <<>>
           /\ Len(last'.feedback.corrections) >= 1
           /\ last'.feedback.praise = NoPraise
           /\ ~last'.calls.translator
           /\ ~last'.calls.matchers
           /\ ~last'.calls.match_check
           /\ FocusIndexOf(focus_indices') = FocusIndexOf(focus_indices)
           /\ awaiting_repeat' = awaiting_repeat ]_vars

C9_Witness ==
    /\ Returned(last)
    /\ last.calls.vad = "no_speech"
    /\ awaiting_repeat
    /\ IndexOf(focus_indices, current_task) = 1

\* C10: when ASR is not ready, process_audio never raises: it returns the
\* fixed still-preparing correction with empty lao_text and null praise,
\* calls neither VAD nor ASR nor the translator, and changes no state other
\* than current_task.
C10_AsrNotReadyReturnsStillPreparing ==
    [][ last'.op = "process_audio" /\ ~asr_ready
        => /\ ~last'.raised
           /\ last'.feedback.corrections = <<PlainHint("still_preparing")>>
           /\ last'.feedback.lao_text = <<>>
           /\ last'.feedback.praise = NoPraise
           /\ last'.calls.vad = "not_called"
           /\ ~last'.calls.asr
           /\ ~last'.calls.translator
           /\ UNCHANGED <<turn_count, last_focus_phrase, last_focus_translation,
                          awaiting_repeat, focus_indices, romanised_cache, reviews>> ]_vars

C10_Witness ==
    /\ Returned(last)
    /\ ~asr_ready
    /\ last.feedback.corrections = <<PlainHint("still_preparing")>>
    /\ current_task = "numbers_0_10"

\* "xyz", which matches no phrase and no gloss of the bank
HeardXyz == <<120, 121, 122>>

\* C11: every process_audio call with ASR ready and speech detected on a task
\* that has a phrase returns feedback whose focus_phrase is not null; when no
\* branch set one it is the phrase the curriculum expects, and the last
\* correction is the hint to stay with that phrase.
C11_FocusPhraseAlwaysReturned ==
    [][ ( /\ Returned(last')
          /\ asr_ready
          /\ last'.calls.vad = "speech"
          /\ get_phrase_bank(current_task') # <<>> )
        => LET cf == _current_focus(focus_indices, current_task', NoTask)
               fb == last'.feedback
           IN /\ Truthy(fb.focus_phrase)
              /\ ~last'.calls.branch_focus
                   => /\ fb.focus_phrase = cf.phrase
                      /\ fb.corrections # <<>>
                      /\ fb.corrections[Len(fb.corrections)]
                           = Hint("lets_stay", fb.focus_translation, cf.phrase,
                                  segment(cf.phrase)) ]_vars

\* "xyz" heard on the first greeting: no branch sets a focus, the feedback
\* stays with the greeting.
C11_Witness ==
    /\ Returned(last)
    /\ last.calls.vad = "speech"
    /\ last.feedback.lao_text = HeardXyz
    /\ ~last.calls.branch_focus
    /\ last.feedback.focus_phrase = get_phrase_bank("day1_greetings")[1].phrase
    /\ last.feedback.corrections[Len(last.feedback.corrections)].kind = "lets_stay"

\* C12: a process_audio call on task T leaves the focus index of every other
\* task as it was, so that _current_focus on another task still returns the
\* phrase at the index where that task was left.
C12_OtherTasksKeepTheirIndex ==
    [][ last'.op = "process_audio"
        => \A t \in TaskIds \ {current_task'} :
             /\ IndexOf(focus_indices', t) = IndexOf(focus_indices, t)
             /\ _current_focus(focus_indices', t, NoTask).phrase
                  = get_phrase_bank(t)[IndexOf(focus_indices, t) + 1].phrase ]_vars

\* A turn on numbers_0_10, left at its second phrase, while day1_greetings
\* waits at its own second phrase: the feedback stays with the second number.
C12_Witness ==
    /\ Returned(last)
    /\ current_task = "numbers_0_10"
    /\ ~last.success
    /\ IndexOf(focus_indices, "numbers_0_10") = 1
    /\ IndexOf(focus_indices, "day1_greetings") = 1
    /\ last.feedback.focus_phrase = get_phrase_bank("numbers_0_10")[2].phrase

\* text.startswith(prefix)
StartsWith(text, prefix) ==
    Len(prefix) <= Len(text) /\ SubSeq(text, 1, Len(prefix)) = prefix

\* C14: a call of generate with an empty history returns a reply_text that
\* begins with the one-time greeting and the introduction of the focus phrase,
\* on every continuation path; with a non-empty history the greeting is absent.
C14_GreetingOnFirstTurnOnly ==
    (last.op = "generate" /\ ~last.result.raised)
    => IF last.call.history = <<>>
       THEN StartsWith(last.result.reply_text,
                       IF Truthy(last.result.focus_phrase)
                       THEN GreetingText \o FirstFocusOpen \o last.result.focus_phrase
                       ELSE GreetingText)
       ELSE ~IsSubstring(GreetingText, last.result.reply_text)

\* A call of generate with a non-blank message on a loaded backend whose
\* generation call raises.
GenerationFailed(l) ==
    /\ l.op = "generate"
    /\ Strip(l.call.user_message) # <<>>
    /\ l.call.backend.loaded
    /\ l.call.backend.raises

\* C16: when a generative backend is configured and the generation call raises,
\* generate still returns: reply_text is the deterministic summary followed by
\* the fixed scripted continuation, the diagnostics hold backend "fallback" and
\* the failure reason, and nothing is raised to the caller.
C16_FailedGenerationFallsBack ==
    GenerationFailed(last)
    => /\ ~last.result.raised
       /\ last.result.reply_text =
            _build_summary(last.call.observation, last.result.focus_phrase,
                           last.result.focus_translation)
            \o ParagraphBreak
            \o (IF Truthy(last.result.focus_phrase)
                THEN FallbackOpen \o last.result.focus_phrase \o FallbackMeans
                     \o Or(last.result.focus_translation, DefaultFallbackGloss)
                     \o FallbackClose
                ELSE FallbackNoVocabularyText)
       /\ last.result.debug.backend = "fallback"
       /\ "reason" \in DOMAIN last.result.debug
       /\ last.result.debug.reason = "str(exc)"

\* A first turn on a task of the bank whose generation call raised.
C16_Witness ==
    /\ GenerationFailed(last)
    /\ last.call.task_id = "numbers_0_10"
    /\ last.call.history = <<>>
    /\ ~last.result.raised
    /\ last.result.debug = [backend |-> "fallback", reason |-> "str(exc)"]
    /\ IsSubstring(FallbackOpen \o get_phrase_bank("numbers_0_10")[1].phrase,
                   last.result.reply_text)

\* A result of generate whose focus phrase contains Lao script.
LaoFocusResult(l) ==
    /\ l.op = "generate"
    /\ ~l.result.raised
    /\ Truthy(l.result.focus_phrase)
    /\ contains_lao_characters(l.result.focus_phrase)

\* C17: for every result of generate whose focus phrase contains Lao script,
\* spoken_text is not null and contains Lao script, on every continuation path.
C17_SpokenTextIsLao ==
    LaoFocusResult(last)
    => /\ Truthy(last.result.spoken_text)
       /\ contains_lao_characters(last.result.spoken_text)

\* A loaded backend answers an English-only continuation, and the spoken text
\* is the Lao focus phrase taken from the reply.
C17_Witness ==
    /\ LaoFocusResult(last)
    /\ last.call.backend = Backend(TRUE, FALSE, TailKeepGoing)
    /\ ~contains_lao_characters(last.call.backend.llm_tail)
    /\ last.result.spoken_text = last.result.focus_phrase

\* C20: after a successful turn the focus phrase and translation of the
\* feedback are those at the advanced focus index, the phrase that follows the
\* completed one in the order of the task; when the completed phrase was the
\* last of the task, the completed phrase is kept as the reported focus.
C20_SuccessReportsNextFocus ==
    [][ (Returned(last') /\ last'.success)
        => LET bank == get_phrase_bank(current_task')
               completed == Min(IndexOf(focus_indices, current_task'), Len(bank) - 1) + 1
               reported == IF completed < Len(bank) THEN completed + 1 ELSE completed
           IN /\ bank # <<>>
              /\ last'.feedback.focus_phrase = bank[reported].phrase
              /\ last'.feedback.focus_translation = bank[reported].translation
              /\ IndexOf(focus_indices', current_task') = reported - 1 ]_vars

\* The last number of numbers_0_10 is said and accepted: it stays the focus.
C20_Witness ==
    /\ Returned(last)
    /\ last.success
    /\ current_task = "numbers_0_10"
    /\ last.feedback.lao_text = get_phrase_bank("numbers_0_10")[3].phrase
    /\ last.feedback.focus_phrase = get_phrase_bank("numbers_0_10")[3].phrase
    /\ IndexOf(focus_indices, "numbers_0_10") = 2

\* "sorry song"
HeardSorrySong == <<115, 111, 114, 114, 121, 32, 115, 111, 110, 103>>

\* A returned turn on a transcript in Latin letters that was not accepted as
\* a repeat.
LatinTurnWithoutSuccess(l) ==
    /\ Returned(l)
    /\ l.calls.matchers
    /\ ~l.success

\* What the feedback fb shows when the focus was taken from phrase with the
\* hint of the given kind.
FocusTakenFrom(fb, kind, phrase) ==
    /\ fb.focus_phrase = phrase
    /\ fb.corrections # <<>>
    /\ fb.corrections[1].kind = kind
    /\ fb.corrections[1].phrase = phrase

LaoTurn(l) ==
    /\ Returned(l)
    /\ l.calls.asr
    /\ contains_lao_characters(l.feedback.lao_text)

\* The similarity of the normalised romanisations of the transcript heard and
\* of the phrase expected (nothing is expected on a task without phrases).
ScriptSimilarity(heard, expected_phrase) ==
    ratio(_normalize_romanised(segment(heard)),
          IF Truthy(expected_phrase) THEN _normalize_romanised(segment(expected_phrase))
          ELSE <<>>)

\* C22: a turn on a transcript in Lao script is a success exactly when the
\* similarity of the normalised romanisations of the transcript and of the
\* expected phrase is at least 0.75, whatever awaiting_repeat was; otherwise
\* the transcript itself is returned as the focus phrase, no praise is given
\* and the focus index of the task is unchanged.
C22_LaoSuccessIffSimilar ==
    [][ LaoTurn(last')
        => LET fb == last'.feedback
               cf == _current_focus(focus_indices, current_task', NoTask)
           IN /\ last'.success
                   <=> RatioAtLeast(ScriptSimilarity(fb.lao_text, cf.phrase),
                                    SCRIPT_MATCH_PCT)
              /\ ~last'.success
                   => /\ fb.focus_phrase = fb.lao_text
                      /\ fb.praise = NoPraise
                      /\ IndexOf(focus_indices', current_task')
                           = IndexOf(focus_indices, current_task') ]_vars

\* The third number is heard while the second is awaited as a repeat: the
\* similarity of 4/6 is below 0.75, the third number is returned unconfirmed.
C22_Witness ==
    /\ LaoTurn(last)
    /\ ~last.success
    /\ last.calls.match_check
    /\ awaiting_repeat
    /\ current_task = "numbers_0_10"
    /\ IndexOf(focus_indices, "numbers_0_10") = 1
    /\ last.feedback.lao_text = get_phrase_bank("numbers_0_10")[3].phrase
    /\ last.feedback.focus_phrase = last.feedback.lao_text
    /\ RatioAtLeast(ScriptSimilarity(last.feedback.lao_text,
                                     get_phrase_bank("numbers_0_10")[2].phrase),
                    REPEAT_MATCH_PCT)

\* C23: every process_audio turn flagged as a success logs exactly one review
\* to the review store, for the phrase just completed and with ease 1.0.
C23_SuccessLogsOneReview ==
    [][ (Returned(last') /\ last'.success)
        => LET completed == _current_focus(focus_indices, current_task', NoTask).phrase
           IN /\ last'.logged = <<[card_id |-> completed, ease |-> 1]>>
              /\ reviews' = Append(reviews, [card_id |-> completed, ease |-> 1]) ]_vars

\* C25: in every returned feedback whose focus_phrase is set, review_card_ids
\* contains that focus phrase, also when the focus was set by the fallback to
\* the expected phrase; when no focus phrase is set it holds the raw transcript
\* if a gloss was found and is empty otherwise.
C25_ReviewIdsHoldTheFocus ==
    (Returned(last) /\ last.calls.asr)
    => LET fb == last.feedback
       IN IF Truthy(fb.focus_phrase)
          THEN \E i \in 1..Len(fb.review_card_ids) : fb.review_card_ids[i] = fb.focus_phrase
          ELSE fb.review_card_ids = IF Truthy(fb.translation) THEN <<fb.lao_text>> ELSE <<>>

\* C26: in every returned feedback the translation field is the gloss of the
\* recognised text: whenever lao_text is a phrase of the current task's bank,
\* translation is that phrase's gloss in the bank, in successful and
\* unsuccessful turns alike.
C26_TranslationIsGlossOfHeard ==
    (Returned(last) /\ last.calls.asr /\ BankGloss(current_task, last.feedback.lao_text) # None)
    => last.feedback.translation = BankGloss(current_task, last.feedback.lao_text)

NextPhraseHints(fb) ==
    {i \in 1..Len(fb.corrections) : fb.corrections[i].kind = "next_phrase"}

\* C29: the "Our next phrase is X" hint appended after a success names a
\* phrase different from the one just completed; when the completed phrase was
\* the last of its task, no such hint is appended.
C29_NextPhraseHintNamesAnotherPhrase ==
    [][ (Returned(last') /\ last'.success)
        => LET bank == get_phrase_bank(current_task')
               completed == _current_focus(focus_indices, current_task', NoTask).phrase
               hints == NextPhraseHints(last'.feedback)
           IN /\ \A i \in hints : last'.feedback.corrections[i].phrase # completed
              /\ completed = bank[Len(bank)].phrase => hints = {} ]_vars

\* A step that is a successful turn on the practised task.
SuccessOnPractised ==
    /\ last'.op = "process_audio"
    /\ current_task' = PractisedTask
    /\ last'.success

\* C30: the focus index of a task never decreases; and if the turns on a task
\* go on and are successes, the index of that task reaches the index of the
\* task's last phrase and stays there for ever.
C30_FocusIndexClimbsToTheLastPhrase ==
    /\ [][ \A t \in TaskInputs \ {NoTask} :
             IndexOf(focus_indices', t) >= IndexOf(focus_indices, t) ]_vars
    /\ []<><<SuccessOnPractised>>_vars
         => <>[](IndexOf(focus_indices, PractisedTask)
                   = Len(get_phrase_bank(PractisedTask)) - 1)

\* The successful turn on the second number, which takes the index of the
\* practised task to its last phrase.
C30_Witness ==
    /\ Returned(last)
    /\ last.success
    /\ last.task_id = PractisedTask
    /\ last.feedback.lao_text = get_phrase_bank(PractisedTask)[2].phrase
    /\ IndexOf(focus_indices, PractisedTask) = Len(get_phrase_bank(PractisedTask)) - 1

----------------------------------------------------------------------------
(* Properties of the worker threads *)

\* process_audio for the request rq on the engine state st, run alone.
Serve(st, rq) ==
    process_audio(st, asr_ready, translator_ready, rq.task_id, TRUE, rq.asr_text, rq.tr)

\* The two calls run one after the other on the engine state st.
SerialOutcome(st, first, second) ==
    \E a \in {Serve(st, first)} :
      \E b \in {Serve(a.state, second)} :
        /\ a.feedback = first.feedback
        /\ b.feedback = second.feedback
        /\ b.state.current_task = current_task
        /\ b.state.awaiting_repeat = awaiting_repeat
        /\ FocusIndexOf(b.state.indices) = FocusIndexOf(focus_indices)

BothReturned ==
    /\ in_flight.running
    /\ \A i \in 1..2 : in_flight.requests[i].pc = "returned"

\* C24: when two requests run process_audio on the shared engine concurrently,
\* the final state (current task, awaiting_repeat, focus indices) and both
\* feedbacks are those of the two calls run in one of the two serial orders.
C24_ConcurrentCallsAreSerialisable ==
    BothReturned
    => \E order \in {<<1, 2>>, <<2, 1>>} :
         SerialOutcome(in_flight.start, in_flight.requests[order[1]],
                       in_flight.requests[order[2]])

----------------------------------------------------------------------------
(* Properties of the translation matcher *)

\* The entries of a bank whose gloss normalises to exactly the normalised text.
ExactGlosses(bank, text) ==
    {i \in 1..Len(ItemsOf(bank)) :
       /\ _normalize_key(text) # <<>>
       /\ _normalize_key(ItemsOf(bank)[i].translation) = _normalize_key(text)}

----------------------------------------------------------------------------
(* Properties of the HTTP layer *)

\* A conversation turn whose audio the recogniser turned into Lao text.
HeardLaoTurn(l) ==
    /\ l.op = "conversation"
    /\ l.audio = "pcm"
    /\ l.has_speech
    /\ asr_ready
    /\ contains_lao_characters(l.asr_text)

\* C13: when a conversation turn carries audio that is recognised as non-empty
\* Lao text, the reply content contains the sentence I heard you say "<transcript>",
\* heard_text is the transcript and utterance_feedback is not null.
C13_HeardLaoIsSummarised ==
    HeardLaoTurn(last)
    => /\ last.response.status_code = 200
       /\ last.response.heard_text = last.asr_text
       /\ last.response.utterance_feedback # NullFeedback
       /\ IsSubstring(HeardOpen \o last.asr_text \o <<34>>, last.response.reply.content)

\* A message that is missing, empty or whitespace only.
BlankMessage(message) == ~Truthy(message) \/ IsBlank(message)

\* The two forms of the input-validation error: the rejection of the request
\* by the validator, and the ValueError of generate turned into a response.
InputValidationError(response) ==
    \/ response.status_code = 422
    \/ response.status_code = 400 /\ response.detail = "Message must not be empty"

\* C15: a conversation turn fails with the input-validation error exactly when
\* the message is blank and no audio accompanies it: generate raises for a blank
\* message and for no other, the HTTP layer rejects a request with neither
\* message nor audio with status 422, and a request that carries audio never
\* fails with this error, whatever was transcribed.
C15_ValidationErrorIffBlankAndNoAudio ==
    /\ \A m \in BlankMessages, b \in RequestBackends :
          generate(<<>>, m, NoTask, NoObservation, b).raised
    /\ \A c \in DOMAIN RequestGenerateTable : ~RequestGenerateTable[c].raised
    /\ last.op = "conversation"
         => /\ InputValidationError(last.response)
                 <=> (BlankMessage(last.message) /\ ~HasAudio(last.audio))
            /\ InputValidationError(last.response) => last.response.status_code = 422

\* An audio-only request in which no speech was detected is answered, with
\* the feedback of the engine.
C15_Witness ==
    /\ last.op = "conversation"
    /\ last.message = None
    /\ last.audio = "pcm"
    /\ ~last.has_speech
    /\ asr_ready
    /\ last.response.status_code = 200
    /\ last.response.heard_text = None
    /\ last.response.utterance_feedback = NoSpeechFeedback

\* C19: GET /health always succeeds with status "ok" and a payload that
\* reports whisper_loaded, vad_backend, tts_available, llm_available and
\* translation_available.
C19_HealthReportsEveryFlag ==
    last.op = "health"
    => /\ last.response.status_code = 200
       /\ last.response.body.status = "ok"
       /\ {"whisper_loaded", "vad_backend", "tts_available", "llm_available",
           "translation_available"} \subseteq DOMAIN last.response.body

\* C28: in a conversation turn that processed audio, the focus phrase and
\* translation of the response are those of the utterance feedback whenever
\* the feedback has a focus phrase.
C28_ResponseFocusIsFeedbackFocus ==
    ( /\ last.op = "conversation"
      /\ last.response.status_code = 200
      /\ last.response.utterance_feedback # NullFeedback
      /\ Truthy(last.response.utterance_feedback.focus_phrase) )
    => /\ last.response.focus_phrase = last.response.utterance_feedback.focus_phrase
       /\ last.response.focus_translation
            = last.response.utterance_feedback.focus_translation

====
